---- MODULE Spec2Model ----
\* A model of tauri-youtube-mp3's two cores:
\*   - dependency provisioning (src-tauri/src/deps.rs): extract_binary and
\*     copy_binary_atomic under EXTRACTION_LOCK, run by concurrent callers;
\*   - download orchestration (src-tauri/src/download.rs, commands.rs): the
\*     command download_from_youtube and the flows it dispatches to.
\* The unix build is modelled (the #[cfg(unix)] permission block is compiled in).
\* File-system operations on the cache directory are taken to succeed; the
\* outcomes of child processes and of the network are nondeterministic.
EXTENDS Naturals, Integers, Sequences, FiniteSets, TLC

\* ------------------------------------------------------------------ bounds
\* Number of concurrent callers of get_bundled_binary.
NumCallers == 2
\* Number of write steps fs::copy takes for a packaged resource (its length).
ResourceLen == 2
\* Calls of get_bundled_binary each caller makes.
MaxCalls == 1

VARIABLES
    \* deps.rs
    fs,          \* the cache directory: path -> file
    binDir,      \* whether <app-data>/bin exists
    bundled,     \* the packaged resources: tool -> resource
    lock,        \* EXTRACTION_LOCK: 0 when free, else the caller holding it
    pc,          \* caller -> position in extract_binary
    tool,        \* caller -> the `binary` argument of its call
    found,       \* caller -> what the existence check of this call found
    ret,         \* caller -> the Result of its last call
    calls,       \* caller -> calls made
    cache0,      \* tool -> what its cache path held before the first call
    \* download.rs, commands.rs: one invocation of download_from_youtube
    url,         \* the url argument, as a sequence of tokens
    rpc,         \* position of the request
    flow,        \* "single" or "playlist", once dispatched
    toolEnv,     \* yt-dlp / ffmpeg -> where a working copy is found, if anywhere
    prov,        \* yt-dlp / ffmpeg -> outcome of ensure_ytdlp / ensure_ffmpeg
    spawned,     \* kind of child process -> number spawned by the request
    children,    \* the transfer processes of the request, in spawn order
    emitted,     \* the "download-progress" events emitted, in order
    outdir,      \* names of the .mp3 files in the output folder
    history,     \* the downloads of history.json
    notified,    \* completion notifications shown
    info,        \* single flow: title, duration, output_path after the metadata query
    pl,          \* playlist flow: the locals of download_playlist_with_progress
    prog,        \* the progress state process_progress_line works on
    ens,         \* ensure_ytdlp / ensure_ffmpeg run by concurrent requests
    result,      \* what the download function returned
    response     \* what the command returned

depsVars == <<fs, binDir, bundled, lock, pc, tool, found, ret, calls, cache0>>
reqVars == <<url, rpc, flow, toolEnv, prov, spawned, children, emitted, outdir, history,
             notified, info, pl, prog, ens, result, response>>
\* all of them but ens
reqLocals == <<url, rpc, flow, toolEnv, prov, spawned, children, emitted, outdir, history,
               notified, info, pl, prog, result, response>>
vars == <<depsVars, reqVars>>

\* ------------------------------------------------------------ deps.rs: data
Tools == {"yt-dlp", "ffmpeg"}
Callers == 1..NumCallers
Unlocked == 0

\* A path that does not exist.
NoFile == [kind |-> "none"]
\* A regular file: len bytes written of a content that is `of` bytes long when
\* whole; exec is the executable permission bit; good says whether the whole
\* content is a program that answers the version probe with exit status 0.
File(len, of, exec, good) == [kind |-> "file", len |-> len, of |-> of, exec |-> exec, good |-> good]

Exists(f) == f.kind = "file"
FileSize(f) == IF Exists(f) THEN f.len ELSE 0
FullyWritten(f) == Exists(f) /\ f.len = f.of /\ f.len > 0

\* get_extracted_binary_path: <app-data>/bin/<binary>
Dest(t) == <<"bin", t>>
\* Variant: the copy is made in place, on dest itself.
TempDestInPlace(t) == Dest(t)
\* dest.with_extension("<ext>.tmp"): a sibling of dest, never dest itself
TempDest(t) == <<"bin", t, "tmp">>
Paths == {Dest(t) : t \in Tools} \cup {TempDest(t) : t \in Tools}

\* The packaged resource of a tool: path_resolver().resolve_resource gives None
\* ("unresolved"), or a path that may not exist (NoFile) or holds a file.
Unresolved == [kind |-> "unresolved"]
ResourceChoices ==
    { Unresolved, NoFile,
      File(0, 0, FALSE, FALSE),                          \* zero-byte placeholder
      File(ResourceLen, ResourceLen, FALSE, TRUE),       \* the tool, not yet executable
      File(ResourceLen, ResourceLen, TRUE, TRUE),        \* the tool, executable
      File(ResourceLen, ResourceLen, FALSE, FALSE) }     \* non-empty, not a working program

\* What the cache path of a tool may hold before the first call.
CacheChoices ==
    { NoFile,
      File(0, 0, TRUE, FALSE),                           \* zero-byte file
      File(1, ResourceLen, FALSE, TRUE),                 \* truncated, not executable
      File(ResourceLen, ResourceLen, TRUE, TRUE),        \* a working copy
      File(ResourceLen, ResourceLen, TRUE, FALSE) }      \* runs, exits non-zero

\* Command::new(path).arg("--version").output(): is_ok() && status.success()
ProbeOK(f) == Exists(f) /\ f.exec /\ FullyWritten(f) /\ f.good

NoRet == [status |-> "none"]
RetOk(via, f) == [status |-> "ok", via |-> via, file |-> f]
RetErr(why) == [status |-> "err", why |-> why]

\* What a call has learnt about the cache path so far.
\* (checked: exists() was evaluated; exists, size: what it and metadata().len()
\* gave; probe: the outcome of the version probe, when one ran.)
NotChecked == [checked |-> FALSE, exists |-> FALSE, size |-> 0, probe |-> "none"]
Checked(f) == [checked |-> TRUE, exists |-> Exists(f), size |-> FileSize(f), probe |-> "none"]

\* Variant: the stale entry is left where it is.
RemoveNothing(fsys, p) == fsys
\* fs::remove_file(path).ok()
Remove(fsys, p) == [fsys EXCEPT ![p] = NoFile]

\* Variant: the size of the cache entry is not looked at.
IsPlaceholderNever(f) == FALSE
\* file_size == 0 on the cache entry: a placeholder
IsPlaceholder(f) == FileSize(f) = 0

\* Variant: the size of the packaged resource is not looked at.
ResourceEmptyNever(b) == FALSE
\* file_size == 0 on the packaged resource
ResourceEmpty(b) == FileSize(b) = 0

\* Variant: the caller does not wait for the lock.
LockFreeAlways == TRUE
\* let _lock = EXTRACTION_LOCK.lock(): blocks while another caller holds it
LockFree == lock = Unlocked

\* Positions of extract_binary at which the caller holds the lock.
Critical == {"check", "probe", "resolve", "mkdir", "copy", "write", "chmod", "rename"}
\* Positions of copy_binary_atomic.
Copying == {"mkdir", "copy", "write", "chmod", "rename"}

\* --------------------------------------------------------- deps.rs: actions
\* get_bundled_binary(app_handle, binary) is called.
Call(c) ==
    /\ pc[c] \in {"idle", "done"}
    /\ calls[c] < MaxCalls
    /\ \E t \in Tools : tool' = [tool EXCEPT ![c] = t]
    /\ pc' = [pc EXCEPT ![c] = "lock"]
    /\ calls' = [calls EXCEPT ![c] = @ + 1]
    /\ found' = [found EXCEPT ![c] = NotChecked]
    /\ ret' = [ret EXCEPT ![c] = NoRet]
    /\ UNCHANGED <<fs, binDir, bundled, lock, cache0, reqVars>>

\* extract_binary, line 113: the lock is taken.
Acquire(c) ==
    /\ pc[c] = "lock"
    /\ LockFree
    /\ lock' = c
    /\ pc' = [pc EXCEPT ![c] = "check"]
    /\ UNCHANGED <<fs, binDir, bundled, tool, found, ret, calls, cache0, reqVars>>

\* extract_binary, lines 115-129: exists(), metadata().len(), and the removal
\* of a zero-byte entry; a non-empty entry is handed to the version probe.
Check(c) ==
    /\ pc[c] = "check"
    /\ LET d == Dest(tool[c])
           f == fs[d]
       IN /\ found' = [found EXCEPT ![c] = Checked(f)]
          /\ IF ~Exists(f)
                THEN /\ pc' = [pc EXCEPT ![c] = "resolve"]
                     /\ fs' = fs
                ELSE IF IsPlaceholder(f)
                THEN /\ pc' = [pc EXCEPT ![c] = "resolve"]
                     /\ fs' = Remove(fs, d)
                ELSE /\ pc' = [pc EXCEPT ![c] = "probe"]
                     /\ fs' = fs
    /\ UNCHANGED <<binDir, bundled, lock, tool, ret, calls, cache0, reqVars>>

\* extract_binary, lines 130-145: the version probe returns; on success the
\* existing copy is returned, otherwise the entry is removed.
Probe(c) ==
    /\ pc[c] = "probe"
    /\ LET d == Dest(tool[c])
           f == fs[d]
       IN IF ProbeOK(f)
            THEN /\ ret' = [ret EXCEPT ![c] = RetOk("existing", f)]
                 /\ pc' = [pc EXCEPT ![c] = "done"]
                 /\ lock' = Unlocked
                 /\ fs' = fs
                 /\ found' = [found EXCEPT ![c].probe = "ok"]
            ELSE /\ fs' = Remove(fs, d)
                 /\ pc' = [pc EXCEPT ![c] = "resolve"]
                 /\ found' = [found EXCEPT ![c].probe = "failed"]
                 /\ UNCHANGED <<lock, ret>>
    /\ UNCHANGED <<binDir, bundled, tool, calls, cache0, reqVars>>

\* Variant: an error return leaves the lock with the caller.
ResolveHoldingLock(c) ==
    /\ pc[c] = "resolve"
    /\ LET b == bundled[tool[c]]
       IN IF b = Unresolved \/ ~Exists(b) \/ FileSize(b) = 0
            THEN /\ ret' = [ret EXCEPT ![c] = RetErr("failed")]
                 /\ pc' = [pc EXCEPT ![c] = "done"]
            ELSE /\ pc' = [pc EXCEPT ![c] = "mkdir"]
                 /\ ret' = ret
    /\ UNCHANGED <<fs, binDir, bundled, lock, tool, found, calls, cache0, reqVars>>

\* extract_binary, lines 148-168: the packaged resource is resolved and
\* checked; each failure returns an error (and drops the lock).
Resolve(c) ==
    /\ pc[c] = "resolve"
    /\ LET b == bundled[tool[c]]
           why == IF b = Unresolved THEN "not bundled"
                  ELSE IF ~Exists(b) THEN "does not exist"
                  ELSE IF ResourceEmpty(b) THEN "empty"
                  ELSE "none"
       IN IF why # "none"
            THEN /\ ret' = [ret EXCEPT ![c] = RetErr(why)]
                 /\ pc' = [pc EXCEPT ![c] = "done"]
                 /\ lock' = Unlocked
            ELSE /\ pc' = [pc EXCEPT ![c] = "mkdir"]
                 /\ UNCHANGED <<lock, ret>>
    /\ UNCHANGED <<fs, binDir, bundled, tool, found, calls, cache0, reqVars>>

\* copy_binary_atomic, lines 85-88: fs::create_dir_all(parent)
MkDir(c) ==
    /\ pc[c] = "mkdir"
    /\ binDir' = TRUE
    /\ pc' = [pc EXCEPT ![c] = "copy"]
    /\ UNCHANGED <<fs, bundled, lock, tool, found, ret, calls, cache0, reqVars>>

\* copy_binary_atomic, line 95: fs::copy creates (or truncates) its target
\* with the source's permission bits and no content yet.
CopyOpen(c) ==
    /\ pc[c] = "copy"
    /\ LET b == bundled[tool[c]]
       IN fs' = [fs EXCEPT ![TempDest(tool[c])] = File(0, b.len, b.exec, b.good)]
    /\ pc' = [pc EXCEPT ![c] = "write"]
    /\ UNCHANGED <<binDir, bundled, lock, tool, found, ret, calls, cache0, reqVars>>

\* copy_binary_atomic, line 95: fs::copy writes the content piece by piece and
\* returns when the whole content is written.
CopyWrite(c) ==
    /\ pc[c] = "write"
    /\ LET p == TempDest(tool[c])
           f == fs[p]
       IN IF Exists(f) /\ f.len < f.of
            THEN /\ fs' = [fs EXCEPT ![p] = [f EXCEPT !.len = @ + 1]]
                 /\ pc' = pc
            ELSE /\ fs' = fs
                 /\ pc' = [pc EXCEPT ![c] = "chmod"]
    /\ UNCHANGED <<binDir, bundled, lock, tool, found, ret, calls, cache0, reqVars>>

\* copy_binary_atomic, lines 97-105: set_mode(0o755) on the copy
Chmod(c) ==
    /\ pc[c] = "chmod"
    /\ LET p == TempDest(tool[c])
       IN fs' = [fs EXCEPT ![p] = IF Exists(@) THEN [@ EXCEPT !.exec = TRUE] ELSE @]
    /\ pc' = [pc EXCEPT ![c] = "rename"]
    /\ UNCHANGED <<binDir, bundled, lock, tool, found, ret, calls, cache0, reqVars>>

\* copy_binary_atomic, line 107, and extract_binary, lines 178-179:
\* fs::rename(temp_dest, dest), then Ok(extracted_path) (the lock is dropped).
Rename(c) ==
    /\ pc[c] = "rename"
    /\ LET t == tool[c]
           f == fs[TempDest(t)]
       IN /\ fs' = [[fs EXCEPT ![TempDest(t)] = NoFile] EXCEPT ![Dest(t)] = f]
          /\ ret' = [ret EXCEPT ![c] = RetOk("extracted", f)]
    /\ pc' = [pc EXCEPT ![c] = "done"]
    /\ lock' = Unlocked
    /\ UNCHANGED <<binDir, bundled, tool, found, calls, cache0, reqVars>>

DepsInit ==
    /\ bundled \in [Tools -> ResourceChoices]
    /\ \E cache \in [Tools -> CacheChoices] :
          /\ cache0 = cache
          /\ fs = [p \in Paths |-> IF \E t \in Tools : p = Dest(t)
                                     THEN cache[CHOOSE t \in Tools : p = Dest(t)]
                                     ELSE NoFile]
          /\ binDir = (\E t \in Tools : Exists(cache[t]))
    /\ lock = Unlocked
    /\ pc = [c \in Callers |-> "idle"]
    /\ tool = [c \in Callers |-> "yt-dlp"]
    /\ found = [c \in Callers |-> NotChecked]
    /\ ret = [c \in Callers |-> NoRet]
    /\ calls = [c \in Callers |-> 0]

DepsNext ==
    \E c \in Callers :
        \/ Call(c)
        \/ Acquire(c)
        \/ Check(c)
        \/ Probe(c)
        \/ Resolve(c)
        \/ MkDir(c)
        \/ CopyOpen(c)
        \/ CopyWrite(c)
        \/ Chmod(c)
        \/ Rename(c)


\* ------------------------------------------------- download.rs: URL shapes
\* A URL is a sequence of tokens; a pattern occurs in it (str::contains) when
\* the pattern's tokens occur contiguously, and begins it (str::starts_with)
\* when they are its first tokens. to_lowercase acts token by token.
Lower(tok) ==
    CASE tok = "HTTPS://" -> "https://"
      [] tok = "WWW." -> "www."
      [] tok = "YOUTUBE.COM/" -> "youtube.com/"
      [] tok = "PLAYLIST" -> "playlist"
      [] tok = "LIST=" -> "list="
      [] tok = "XYZ" -> "xyz"
      [] tok = "Title" -> "title"
      [] OTHER -> tok

ToLowercase(u) == [i \in 1..Len(u) |-> Lower(u[i])]

StartsWithAt(u, pat, i) ==
    /\ i + Len(pat) - 1 <= Len(u)
    /\ \A j \in 1..Len(pat) : u[i + j - 1] = pat[j]

StartsWith(u, pat) == StartsWithAt(u, pat, 1)
Contains(u, pat) == \E i \in 1..Len(u) : StartsWithAt(u, pat, i)

\* is_youtube_url, lines 1306-1320
IsYoutubeUrl(u) ==
    LET l == ToLowercase(u)
    IN \/ Contains(l, <<"youtube.com/", "watch">>)
       \/ Contains(l, <<"youtu.be/">>)
       \/ Contains(l, <<"youtube.com/", "embed/">>)
       \/ Contains(l, <<"youtube.com/", "v/">>)
       \/ Contains(l, <<"youtube.com/", "shorts/">>)
       \/ Contains(l, <<"m.", "youtube.com/", "watch">>)
       \/ Contains(l, <<"www.", "youtube.com/", "watch">>)
       \/ StartsWith(l, <<"https://", "youtube.com/">>)
       \/ StartsWith(l, <<"http://", "youtube.com/">>)
       \/ StartsWith(l, <<"https://", "youtu.be/">>)
       \/ StartsWith(l, <<"http://", "youtu.be/">>)
       \/ Contains(l, <<"youtube.com/", "playlist">>)

\* is_playlist_url, lines 1323-1330
IsPlaylistUrl(u) ==
    LET l == ToLowercase(u)
    IN /\ Contains(l, <<"list=">>)
       /\ \/ Contains(l, <<"youtube.com/", "watch">>)
          \/ Contains(l, <<"youtube.com/", "playlist">>)

\* The url arguments tried.
UrlSamples ==
    { <<"https://", "www.", "youtube.com/", "watch", "?", "v=", "a">>,
      <<"https://", "youtu.be/", "a">>,
      <<"https://", "youtu.be/", "a", "?", "list=", "XYZ">>,
      <<"https://", "youtube.com/", "shorts/", "a">>,
      <<"https://", "www.", "youtube.com/", "playlist", "?", "list=", "XYZ">>,
      <<"https://", "www.", "youtube.com/", "watch", "?", "v=", "a", "&", "list=", "XYZ">>,
      <<"HTTPS://", "WWW.", "YOUTUBE.COM/", "PLAYLIST", "?", "LIST=", "XYZ">>,
      <<"https://", "vimeo.com/", "123">>,
      <<"https://", "example.com/", "?", "list=", "XYZ">>,
      <<"ftp://", "youtube.com/", "channel">>,
      <<>> }

\* --------------------------------------------- download.rs: provisioning
DlTools == {"yt-dlp", "ffmpeg"}

\* Where a working copy of a tool is: local is the file under
\* <config>/youtube-downloader/bin ("absent", "working", or "broken": present
\* but failing its version probe); onPath says whether the system PATH has one.
EnvChoices ==
    { [local |-> "absent", onPath |-> FALSE],
      [local |-> "working", onPath |-> FALSE],
      [local |-> "absent", onPath |-> TRUE],
      [local |-> "broken", onPath |-> FALSE] }

\* What the download of a tool from the network may give.
NetOutcomes == {"http_error", "working", "broken"}

\* check_command, lines 76-103: (installed, command, version probes spawned)
CheckCommand(env) ==
    IF env.local = "working"
      THEN [installed |-> TRUE, cmd |-> "local", probes |-> 1]
    ELSE IF env.onPath
      THEN [installed |-> TRUE, cmd |-> "path",
            probes |-> IF env.local = "absent" THEN 1 ELSE 2]
    ELSE [installed |-> FALSE, cmd |-> "path",
          probes |-> IF env.local = "absent" THEN 1 ELSE 2]

\* download_ytdlp, lines 162-250, and download_ffmpeg, lines 265-390: the
\* outcome, the local file afterwards and the version probes spawned.
DownloadTool(env, net) ==
    LET stale == IF env.local = "absent" THEN 0 ELSE 1
    IN IF env.local = "working"
         THEN [ok |-> TRUE, local |-> "working", probes |-> 1]
       ELSE IF net = "http_error"
         THEN [ok |-> FALSE, local |-> "absent", probes |-> stale]
       ELSE IF net = "broken"
         THEN [ok |-> FALSE, local |-> "absent", probes |-> stale + 1]
       ELSE [ok |-> TRUE, local |-> "working", probes |-> stale + 1]

\* ensure_ytdlp, lines 253-262, and ensure_ffmpeg, lines 393-402
EnsureTool(env, net) ==
    LET chk == CheckCommand(env)
        dl == DownloadTool(env, net)
    IN IF chk.installed
         THEN [ok |-> TRUE, cmd |-> chk.cmd, local |-> env.local, probes |-> chk.probes]
         ELSE [ok |-> dl.ok, cmd |-> "local", local |-> dl.local,
               probes |-> chk.probes + dl.probes]

\* ------------------------------------------------ download.rs: single item
None == [some |-> FALSE]
Some(v) == [some |-> TRUE, v |-> v]

\* Titles the metadata may carry.
Titles == {"Song", "A/B"}

\* sanitize_filename, lines 1334-1350, on the titles above
SanitizeFilename(t) == IF t = "A/B" THEN "A_B" ELSE t

\* The file stem the fetcher's own %(title)s template gives: "NA" without a
\* title; the fetcher replaces a slash by a look-alike, not by an underscore.
FetcherStem(title) ==
    IF ~title.some THEN "NA"
    ELSE IF title.v = "A/B" THEN "A|B"
    ELSE title.v

\* What `yt-dlp --dump-json --no-playlist <url>` may give: the process cannot
\* be spawned, exits non-zero, or exits zero with a standard output that is
\* empty, is not JSON, or is a JSON object with or without title and id.
MetaOutcomes ==
    { [run |-> "spawn_failed"], [run |-> "exit_nonzero"],
      [run |-> "ok", body |-> "empty"], [run |-> "ok", body |-> "malformed"] }
    \cup { [run |-> "ok", body |-> "object", title |-> t, id |-> i] :
             t \in {None} \cup {Some(x) : x \in Titles},
             i \in {None, Some("a")} }

\* serde_json::from_slice(&stdout) succeeds
ParsesAsJson(m) == m.body = "object"

\* lines 487-503: the title and the expected output path (its file stem)
InfoOf(m) ==
    LET title == IF m.title.some THEN Some(SanitizeFilename(m.title.v)) ELSE None
    IN [title |-> title,
        stem |-> IF title.some THEN title.v
                 ELSE IF m.id.some THEN m.id.v
                 ELSE "video",
        raw |-> m.title]

NoInfo == [title |-> None, stem |-> "", raw |-> None]

\* What the transfer process may do.
TransferOutcomes == {"spawn_failed", "exit_nonzero", "ok"}

\* Kinds of child process.
ProcKinds == {"version", "meta", "enum", "transfer"}

NoResult == [status |-> "none"]
Err(why) == [status |-> "err", why |-> why]
OkSingle(inf, present) ==
    [status |-> "ok", kind |-> "single", output_path |-> inf.stem,
     title |-> inf.title, has_size |-> present]

\* HistoryData::add keeps the last 100 downloads.
HistoryCap == 100

\* HistoryData::add, commands.rs lines 54-61
HistoryAdd(h, e) ==
    LET pushed == Append(h, e)
    IN IF Len(pushed) > HistoryCap THEN Tail(pushed) ELSE pushed

Spawn(kind, n) == [spawned EXCEPT ![kind] = @ + n]

\* A transfer process: the playlist item it works for (0 in the single flow)
\* and whether it runs, has exited (status zero or not), or was lost by a
\* failed wait.
Child(item, state) == [item |-> item, state |-> state]
Running(cs) == {i \in 1..Len(cs) : cs[i].state \in {"running", "unknown"}}

\* Variant: the exit of the transfer is not waited for.
ReapNothing(cs, state) == cs

\* child.wait(): the state of the last transfer spawned
Reap(cs, state) == [cs EXCEPT ![Len(cs)].state = state]

\* Variant: every path is taken to exist.
PathExistsAlways(stem, dir) == TRUE

\* Variant: no path is taken to exist.
PathExistsNever(stem, dir) == FALSE

\* output_path.exists() / expected_path.exists()
PathExists(stem, dir) == stem \in dir

\* Variant: every exit status is taken for success.
StatusSuccessAlways(w) == TRUE

\* status.success()
StatusSuccess(w) == w = "ok"

\* ----------------------------------------------- download.rs: the request
\* download_from_youtube, commands.rs lines 173-176 and 200-201: the flow is
\* chosen by is_playlist_url.
Dispatch ==
    /\ rpc = "start"
    /\ flow' = IF IsPlaylistUrl(url) THEN "playlist" ELSE "single"
    /\ rpc' = "validate"
    /\ UNCHANGED <<depsVars, prog, ens, children, url, toolEnv, prov, spawned, emitted, outdir, history,
                   notified, info, pl, result, response>>

\* Variant: the URL is not looked at.
ValidateNothing ==
    /\ rpc = "validate"
    /\ rpc' = "ensure_ytdlp"
    /\ UNCHANGED <<depsVars, prog, ens, children, url, flow, toolEnv, prov, spawned, emitted, outdir, history,
                   notified, info, pl, result, response>>

\* download_youtube, lines 440-443; download_playlist_with_progress, lines
\* 964-971.
Validate ==
    /\ rpc = "validate"
    /\ IF ~IsYoutubeUrl(url)
         THEN /\ result' = Err("invalid url")
              /\ rpc' = "return"
       ELSE IF flow = "playlist" /\ ~IsPlaylistUrl(url)
         THEN /\ result' = Err("not a playlist url")
              /\ rpc' = "return"
       ELSE /\ result' = result
            /\ rpc' = "ensure_ytdlp"
    /\ UNCHANGED <<depsVars, prog, ens, children, url, flow, toolEnv, prov, spawned, emitted, outdir, history,
                   notified, info, pl, response>>

\* Variant: a failed setup does not end the request.
AfterEnsureIgnoringFailure(k, ok) ==
    IF k = "yt-dlp" THEN "ensure_ffmpeg"
    ELSE IF flow = "single" THEN "s_info"
    ELSE "p_enum"

\* Where the request goes after ensure_ytdlp / ensure_ffmpeg: Err(..) returns.
AfterEnsure(k, ok) ==
    IF ~ok THEN "return"
    ELSE IF k = "yt-dlp" THEN "ensure_ffmpeg"
    ELSE IF flow = "single" THEN "s_info"
    ELSE "p_enum"

\* lines 445-455 and 973-983 (k = "yt-dlp", at "ensure_ytdlp"); lines 457-467
\* and 985-995 (k = "ffmpeg", at "ensure_ffmpeg")
Ensure(k) ==
    /\ rpc = (IF k = "yt-dlp" THEN "ensure_ytdlp" ELSE "ensure_ffmpeg")
    /\ \E net \in NetOutcomes :
          LET e == EnsureTool(toolEnv[k], net)
          IN /\ toolEnv' = [toolEnv EXCEPT ![k].local = e.local]
             /\ spawned' = Spawn("version", e.probes)
             /\ IF e.ok
                  THEN /\ prov' = [prov EXCEPT ![k] = "ok"]
                       /\ result' = result
                  ELSE /\ prov' = [prov EXCEPT ![k] = "failed"]
                       /\ result' = Err("setup failed")
             /\ rpc' = AfterEnsure(k, e.ok)
    /\ UNCHANGED <<depsVars, prog, ens, children, url, flow, emitted, outdir, history, notified, info, pl, response>>

\* download_youtube, lines 469-518: the metadata query, its parsing, the
\* expected output path and the return of an already existing file.
SingleInfo ==
    /\ rpc = "s_info"
    /\ \E m \in MetaOutcomes :
          IF m.run = "spawn_failed"
            THEN /\ result' = Err("get video info: spawn")
                 /\ rpc' = "return"
                 /\ UNCHANGED <<spawned, info>>
          ELSE IF m.run = "exit_nonzero"
            THEN /\ result' = Err("get video info: exit status")
                 /\ rpc' = "return"
                 /\ spawned' = Spawn("meta", 1)
                 /\ info' = info
          ELSE IF ~ParsesAsJson(m)
            THEN /\ result' = Err("parse video info")
                 /\ rpc' = "return"
                 /\ spawned' = Spawn("meta", 1)
                 /\ info' = info
          ELSE /\ spawned' = Spawn("meta", 1)
               /\ info' = InfoOf(m)
               /\ IF PathExists(InfoOf(m).stem, outdir)
                    THEN /\ result' = OkSingle(InfoOf(m), TRUE)
                         /\ rpc' = "return"
                    ELSE /\ result' = result
                         /\ rpc' = "s_transfer"
    /\ UNCHANGED <<depsVars, prog, ens, children, url, flow, toolEnv, prov, emitted, outdir, history, notified, pl, response>>

\* download_youtube, lines 520-555: the transfer process runs to its end
\* (Command::output); a non-zero exit status is an error of the request.
SingleTransfer ==
    /\ rpc = "s_transfer"
    /\ \E t \in TransferOutcomes :
          IF t = "spawn_failed"
            THEN /\ result' = Err("download failed: spawn")
                 /\ UNCHANGED <<spawned, children, outdir>>
          ELSE IF ~StatusSuccess(IF t = "ok" THEN "ok" ELSE "exit_nonzero")
            THEN /\ result' = Err("download failed: exit status")
                 /\ spawned' = Spawn("transfer", 1)
                 /\ children' = Append(children, Child(0, "exited_failed"))
                 /\ outdir' = outdir
          ELSE /\ spawned' = Spawn("transfer", 1)
               /\ children' = Append(children,
                                     Child(0, IF t = "ok" THEN "exited_ok" ELSE "exited_failed"))
               /\ outdir' = IF t = "ok" THEN outdir \cup {FetcherStem(info.raw)} ELSE outdir
               /\ result' = OkSingle(info, info.stem \in outdir')
    /\ rpc' = "return"
    /\ UNCHANGED <<depsVars, prog, ens, url, flow, toolEnv, prov, emitted, history, notified, info, pl, response>>

\* download_from_youtube, commands.rs lines 201-223 (single) : `?` hands an
\* error on; a result is added to the history, a notification is shown.
CommandReturnSingle ==
    /\ rpc = "return"
    /\ flow = "single"
    /\ IF result.status = "err"
         THEN UNCHANGED <<history, notified>>
         ELSE /\ history' = HistoryAdd(history, [url |-> url, title |-> result.title,
                                                 output_path |-> result.output_path])
              /\ notified' = notified + 1
    /\ response' = result
    /\ rpc' = "done"
    /\ UNCHANGED <<depsVars, prog, ens, children, url, flow, toolEnv, prov, spawned, emitted, outdir, info, pl, result>>

\* -------------------------------------------------- download.rs: playlist
\* Progress values are in tenths of a percent; overall_progress is the exact
\* fraction overall_num / overall_den (overall_den is total_videos).
Full == 1000
Progress(num, den, cur, total, song, status, title) ==
    [overall_num |-> num, overall_den |-> den, current_song |-> cur,
     total_songs |-> total, song_progress |-> song, status |-> status,
     current_title |-> title]

\* The videos a playlist may list, with the title the fetcher knows for each.
Vids == {"a", "b"}
VideoTitle(v) == IF v = "a" THEN "Song" ELSE "A/B"

\* One line of `--dump-json --flat-playlist` that parses as JSON: it carries an
\* "id", or only a "url" (with or without a v= parameter), or neither.
EntryId(v) == [kind |-> "id", vid |-> v, hasV |-> TRUE]
EntryUrl(v, hasV) == [kind |-> "url", vid |-> v, hasV |-> hasV]
EntryBare == [kind |-> "bare", vid |-> "", hasV |-> FALSE]

\* What the enumeration may give.
EnumOutcomes ==
    { [run |-> "spawn_failed"], [run |-> "exit_nonzero"] }
    \cup { [run |-> "ok", entries |-> e] :
             e \in { <<>>,
                     <<EntryId("a")>>,
                     <<EntryId("a"), EntryId("b")>>,
                     <<EntryId("b"), EntryUrl("a", FALSE)>>,
                     <<EntryBare, EntryId("a")>>,
                     <<EntryBare>> } }

\* Variant: the playlist is never taken to be empty.
IsEmptyNever(total) == FALSE

\* total_videos == 0, line 1020
IsEmpty(total) == total = 0

\* lines 1024-1034: entries with an id or a url give a video URL
HasUrl(e) == e.kind # "bare"
VideoUrls(entries) == SelectSeq(entries, HasUrl)

\* Variant: the total counts only the entries that gave a video URL.
TotalVideosWithUrl(entries) == Len(VideoUrls(entries))

\* let total_videos = entries.len(), line 1018
TotalVideos(entries) == Len(entries)

\* What the per-item metadata query may give.
ItemMetaOutcomes == {"spawn_failed", "no_title", "title"}

\* format!("video_{}.mp3", current_song_num)
VideoN(n) ==
    CASE n = 1 -> "video_1" [] n = 2 -> "video_2" [] n = 3 -> "video_3"
      [] OTHER -> "video_n"

\* lines 1094-1104: the expected output path (its file stem)
ExpectedStem(title, vurl, songNum) ==
    IF title.some THEN title.v
    ELSE IF vurl.hasV THEN vurl.vid
    ELSE VideoN(songNum)

\* A line of the transfer's error stream is a sequence of characters. A tag
\* ("[download]", "[ExtractAudio]", "[Merger]", "[youtube]") stands for one
\* ASCII character here: none of its characters is a digit or a dot, so its
\* length moves every offset alike. "e-acute" (U+00E9) takes two bytes in UTF-8, every other
\* character one.
Digit == {"0", "1", "2", "4", "5"}
DigitVal(c) ==
    CASE c = "0" -> 0 [] c = "1" -> 1 [] c = "2" -> 2 [] c = "4" -> 4 [] OTHER -> 5
Bytes(c) == IF c = "e-acute" THEN 2 ELSE 1

RECURSIVE ByteLen(_)
ByteLen(l) == IF l = <<>> THEN 0 ELSE Bytes(Head(l)) + ByteLen(Tail(l))

\* the byte offset of the character at (one-based) position i
ByteOffset(l, i) == ByteLen(SubSeq(l, 1, i - 1))

\* str::is_char_boundary
IsCharBoundary(l, b) == b = ByteLen(l) \/ \E i \in 1..Len(l) : ByteOffset(l, i) = b

\* &line[from..to], both offsets on character boundaries
ByteSlice(l, from, to) ==
    LET inside == {i \in 1..Len(l) : ByteOffset(l, i) >= from /\ ByteOffset(l, i) < to}
    IN IF inside = {} THEN <<>>
       ELSE SubSeq(l, CHOOSE i \in inside : \A j \in inside : i <= j,
                      CHOOSE i \in inside : \A j \in inside : i >= j)

\* line.chars().nth(k).unwrap_or(' ')
CharsNth(l, k) == IF k < Len(l) THEN l[k + 1] ELSE " "

\* line.find('%'): the byte offset of the first '%', or -1
FindPercent(l) ==
    IF \E i \in 1..Len(l) : l[i] = "%"
      THEN ByteOffset(l, CHOOSE i \in 1..Len(l) : l[i] = "%" /\ \A j \in 1..i - 1 : l[j] # "%")
      ELSE -1

RECURSIVE TrimStart(_)
TrimStart(l) == IF l # <<>> /\ Head(l) = " " THEN TrimStart(Tail(l)) ELSE l
RECURSIVE TrimEnd(_)
TrimEnd(l) == IF l # <<>> /\ l[Len(l)] = " " THEN TrimEnd(SubSeq(l, 1, Len(l) - 1)) ELSE l
\* str::trim
Trim(l) == TrimEnd(TrimStart(l))

\* lines 1167-1180: the walk back from '%' to the start of the number; a byte
\* offset is used as a character index.
RECURSIVE ScanBack(_, _, _)
ScanBack(l, num_start, found_digit) ==
    IF num_start = 0 THEN [num_start |-> 0, found_digit |-> found_digit]
    ELSE LET ch == CharsNth(l, num_start - 1)
         IN IF ch \in Digit \/ ch = "."
              THEN ScanBack(l, num_start - 1, TRUE)
            ELSE IF found_digit
              THEN [num_start |-> num_start, found_digit |-> TRUE]
            ELSE ScanBack(l, num_start - 1, FALSE)

\* str::parse::<f64> on what the walk can leave: digits with at most one dot
\* and at least one digit; the value in tenths (the lines tried carry at most
\* one decimal), -1 when the text is no number.
RECURSIVE Whole(_)
Whole(t) == IF t = <<>> THEN 0 ELSE Whole(SubSeq(t, 1, Len(t) - 1)) * 10 + DigitVal(t[Len(t)])
ParseF64(t) ==
    LET dots == {i \in 1..Len(t) : t[i] = "."}
    IN IF \/ \E i \in 1..Len(t) : t[i] \notin Digit \cup {"."}
          \/ Cardinality(dots) > 1
          \/ Cardinality(dots) = Len(t)
         THEN -1
       ELSE IF dots = {} THEN Whole(t) * 10
       ELSE LET d == CHOOSE i \in dots : TRUE
                frac == SubSeq(t, d + 1, Len(t))
            IN Whole(SubSeq(t, 1, d - 1)) * 10 + (IF frac = <<>> THEN 0 ELSE DigitVal(frac[1]))

HasTag(l, tag) == \E i \in 1..Len(l) : l[i] = tag

\* lines 1162-1233: what the loop makes of one line: a percentage (its value
\* before clamping), a conversion step, nothing, or a panic of the slice
\* &line[num_start..percent_pos] on an offset inside a character.
Classify(raw) ==
    LET l == Trim(raw)
        pp == FindPercent(l)
        sc == ScanBack(l, pp, FALSE)
    IN IF l = <<>> THEN [k |-> "none"]
       ELSE IF HasTag(l, "[download]")
         THEN IF pp < 0 THEN [k |-> "none"]
              ELSE IF ~(sc.found_digit /\ sc.num_start < pp) THEN [k |-> "none"]
              ELSE IF ~IsCharBoundary(l, sc.num_start) THEN [k |-> "panic"]
              ELSE LET v == ParseF64(Trim(ByteSlice(l, sc.num_start, pp)))
                   IN IF v < 0 THEN [k |-> "none"] ELSE [k |-> "percent", v |-> v]
       ELSE IF HasTag(l, "[ExtractAudio]") \/ HasTag(l, "[Merger]")
         THEN [k |-> "convert"]
       ELSE [k |-> "none"]

\* The lines tried.
PercentLine(number) == <<"[download]", " ", " ">> \o number \o <<"%", " ", "o", "f">>
Line452 == PercentLine(<<"4", "5", ".", "2">>)
Line454 == PercentLine(<<"4", "5", ".", "4">>)
Line0 == PercentLine(<<"0", ".", "0">>)
Line100 == PercentLine(<<"1", "0", "0">>)
Line150 == PercentLine(<<"1", "5", "0">>)
LineDestination == <<"[download]", " ", "Destination", ":", " ", "a">>
LineYoutube == <<"[youtube]", " ", "a", ":", " ", "x">>
LineExtractAudio == <<"[ExtractAudio]", " ", "D", "e", "s", "t">>
LineMerger == <<"[Merger]", " ", "x">>
LineBlank == <<" ", " ">>
LineWide == <<"[download]", " ", "e-acute", "5", "%">>

\* What a transfer process may write to its error stream.
Scripts ==
    { <<>>,
      <<Line452, Line454, LineExtractAudio>>,
      <<Line0, Line0, Line150>>,
      <<LineDestination, LineYoutube, Line100, LineMerger>>,
      <<LineBlank, LineWide>> }

\* The transfer's standard output is a pipe (line 1147) of which the request
\* never reads: Child::stdout is not taken anywhere between lines 1135 and
\* 1241. What the child writes to it stays in the pipe, which holds
\* PipeCapacity units; a child that has more to write than that blocks in the
\* write and neither closes its error stream nor exits.
PipeCapacity == 1
\* What a transfer may write: the lines of one of the scripts to its error
\* stream and nothing to its standard output, or a progress line to the error
\* stream and more to its standard output than the pipe holds.
Outputs ==
    {[lines |-> sc, stdout |-> 0] : sc \in Scripts}
        \cup {[lines |-> <<Line452>>, stdout |-> PipeCapacity + 1]}

\* Variant: the parsed percentage is used as it is.
ClampNothing(v) == v

\* percent.min(100.0).max(0.0)
Clamp(v) == IF v > Full THEN Full ELSE IF v < 0 THEN 0 ELSE v
Abs(x) == IF x < 0 THEN 0 - x ELSE x

\* (new_progress - song_progress).abs() > 0.5 || song_progress == 0.0
Significant(new, old) == Abs(new - old) > 5 \/ old = 0

NoPlaylist ==
    [listed |-> FALSE, entries |-> <<>>, total |-> 0, urls |-> <<>>, existing |-> {},
     index |-> 0, items |-> <<>>, title |-> None, song |-> 0, lines |-> <<>>,
     read |-> <<>>, mark |-> 0, stdout |-> 0, outcomes |-> <<>>]

OkPlaylist(total, items) ==
    [status |-> "ok", kind |-> "playlist", total_videos |-> total,
     downloaded_videos |-> items]

Item(stem, title) == [output_path |-> stem, title |-> title]

\* lines 997-1047: enumeration, the empty-playlist error, the video URLs and
\* the snapshot of the output folder.
PlaylistEnumerate ==
    /\ rpc = "p_enum"
    /\ \E e \in EnumOutcomes :
          IF e.run = "spawn_failed"
            THEN /\ result' = Err("get playlist info: spawn")
                 /\ rpc' = "return"
                 /\ UNCHANGED <<spawned, pl>>
          ELSE IF e.run = "exit_nonzero"
            THEN /\ result' = Err("get playlist info: exit status")
                 /\ rpc' = "return"
                 /\ spawned' = Spawn("enum", 1)
                 /\ pl' = pl
          ELSE IF IsEmpty(TotalVideos(e.entries))
            THEN /\ result' = Err("empty playlist")
                 /\ rpc' = "return"
                 /\ spawned' = Spawn("enum", 1)
                 /\ pl' = [pl EXCEPT !.listed = TRUE, !.entries = e.entries]
          ELSE /\ spawned' = Spawn("enum", 1)
               /\ pl' = [NoPlaylist EXCEPT !.listed = TRUE,
                                           !.entries = e.entries,
                                           !.total = TotalVideos(e.entries),
                                           !.urls = VideoUrls(e.entries),
                                           !.existing = outdir]
               /\ result' = result
               /\ rpc' = "p_item"
    /\ UNCHANGED <<depsVars, prog, ens, children, url, flow, toolEnv, prov, emitted, outdir, history, notified,
                   info, response>>

\* lines 1050-1153: one turn of the loop up to the spawn of the transfer: the
\* start record, the metadata query, the skip of an existing file.
PlaylistItem ==
    /\ rpc = "p_item"
    /\ pl.index < Len(pl.urls)
    /\ \E m \in ItemMetaOutcomes, t \in {"spawn_failed", "spawned"}, output \in Outputs :
          LET vurl == pl.urls[pl.index + 1]
              num == pl.index + 1
              title == IF m = "title" THEN Some(SanitizeFilename(VideoTitle(vurl.vid)))
                       ELSE None
              start == Progress(pl.index * Full, pl.total, num, pl.total, 0,
                                "Preparing download...", None)
              titled == Progress(pl.index * Full, pl.total, num, pl.total, 0,
                                 "Starting download...", title)
              skip == Progress((pl.index + 1) * Full, pl.total, num, pl.total, Full,
                               "Already exists, skipping...", title)
              sofar == IF title.some THEN <<start, titled>> ELSE <<start>>
              stem == ExpectedStem(title, vurl, num)
              metas == IF m = "spawn_failed" THEN 0 ELSE 1
          IN IF PathExists(stem, outdir)
               THEN /\ emitted' = emitted \o sofar \o <<skip>>
                    /\ spawned' = Spawn("meta", metas)
                    /\ pl' = [pl EXCEPT !.items = Append(@, Item(stem, title)),
                                        !.index = @ + 1, !.title = title,
                                        !.outcomes = Append(@, "skipped")]
                    /\ UNCHANGED <<rpc, result, children>>
             ELSE IF t = "spawn_failed"
               THEN /\ emitted' = emitted \o sofar
                    /\ spawned' = Spawn("meta", metas)
                    /\ pl' = [pl EXCEPT !.title = title]
                    /\ result' = Err("start download: spawn")
                    /\ rpc' = "return"
                    /\ children' = children
             ELSE /\ emitted' = emitted \o sofar
                  /\ spawned' = [spawned EXCEPT !["meta"] = @ + metas,
                                                !["transfer"] = @ + 1]
                  /\ children' = Append(children, Child(num, "running"))
                  /\ pl' = [pl EXCEPT !.title = title, !.song = 0, !.lines = output.lines,
                                      !.read = <<>>, !.mark = Len(emitted'),
                                      !.stdout = output.stdout]
                  /\ rpc' = "p_read"
                  /\ result' = result
    /\ UNCHANGED <<depsVars, prog, ens, url, flow, toolEnv, prov, outdir, history, notified, info, response>>

\* line 1159: read_line gives a line the child has written.
LineReady == rpc = "p_read" /\ pl.lines # <<>>

\* lines 1157-1238: one line of the transfer's error stream.
PlaylistReadLine ==
    /\ LineReady
    /\ LET line == Classify(Head(pl.lines))
           num == pl.index + 1
       IN IF line.k = "panic"
            THEN /\ rpc' = "panicked"
                 /\ UNCHANGED <<pl, emitted>>
          ELSE IF line.k = "percent"
            THEN LET new == Clamp(line.v)
                 IN /\ rpc' = rpc
                    /\ IF Significant(new, pl.song)
                         THEN /\ pl' = [pl EXCEPT !.lines = Tail(@), !.song = new,
                                                  !.read = Append(@, Head(pl.lines))]
                              /\ emitted' = Append(emitted,
                                    Progress(pl.index * Full + new, pl.total, num, pl.total, new,
                                             IF new >= 950 THEN "Converting to MP3..."
                                             ELSE "Downloading...",
                                             pl.title))
                         ELSE /\ pl' = [pl EXCEPT !.lines = Tail(@),
                                                  !.read = Append(@, Head(pl.lines))]
                              /\ emitted' = emitted
          ELSE IF line.k = "convert"
            THEN /\ rpc' = rpc
                 /\ pl' = [pl EXCEPT !.lines = Tail(@), !.song = 950,
                                     !.read = Append(@, Head(pl.lines))]
                 /\ emitted' = Append(emitted,
                       Progress(pl.index * Full + 950, pl.total, num, pl.total, 950,
                                "Converting to MP3...", pl.title))
          ELSE /\ rpc' = rpc
               /\ pl' = [pl EXCEPT !.lines = Tail(@), !.read = Append(@, Head(pl.lines))]
               /\ emitted' = emitted
    /\ UNCHANGED <<depsVars, prog, ens, children, url, flow, toolEnv, prov, spawned, outdir, history, notified,
                   info, result, response>>

\* The transfer being read cannot finish writing its standard output.
StdoutBlocked == pl.stdout > PipeCapacity

\* line 1160: read_line gives Ok(0) once the child has closed its error stream.
StreamEnded == rpc = "p_read" /\ pl.lines = <<>> /\ ~StdoutBlocked

\* lines 1160 and 1240-1284: end of the error stream, the wait for the exit
\* status, the completion record and the scan of the output folder for a file
\* that was not there before the run.
PlaylistItemEnd ==
    /\ StreamEnded
    /\ \E w \in {"wait_failed", "exit_nonzero", "ok"} :
          LET vurl == pl.urls[pl.index + 1]
              num == pl.index + 1
              done == Progress((pl.index + 1) * Full, pl.total, num, pl.total, Full,
                               "Completed", pl.title)
              after == outdir \cup {FetcherStem(Some(VideoTitle(vurl.vid)))}
              outcome == IF w = "ok" THEN "done" ELSE "failed"
          IN IF w = "wait_failed"
               THEN /\ result' = Err("wait for process")
                    /\ rpc' = "return"
                    /\ children' = Reap(children, "unknown")
                    /\ UNCHANGED <<emitted, outdir, pl>>
             ELSE IF ~StatusSuccess(w)
               THEN /\ pl' = [pl EXCEPT !.index = @ + 1, !.outcomes = Append(@, outcome)]
                    /\ rpc' = "p_item"
                    /\ children' = Reap(children, "exited_failed")
                    /\ UNCHANGED <<emitted, outdir, result>>
             ELSE /\ emitted' = Append(emitted, done)
                  /\ outdir' = IF w = "ok" THEN after ELSE outdir
                  /\ children' = Reap(children, IF w = "ok" THEN "exited_ok" ELSE "exited_failed")
                  /\ IF outdir' \ pl.existing = {}
                       THEN pl' = [pl EXCEPT !.index = @ + 1, !.outcomes = Append(@, outcome)]
                       ELSE \E f \in outdir' \ pl.existing :
                              pl' = [pl EXCEPT !.index = @ + 1,
                                               !.items = Append(@, Item(f, Some(f))),
                                               !.outcomes = Append(@, outcome)]
                  /\ rpc' = "p_item"
                  /\ result' = result
    /\ UNCHANGED <<depsVars, prog, ens, url, flow, toolEnv, prov, spawned, history, notified, info, response>>

\* The future of download_from_youtube is dropped while it awaits the output
\* of a transfer (the application shuts its async runtime down): nothing more
\* of the request runs. The Child is dropped with it; tokio::process::Command
\* is built at lines 1135-1148 without kill_on_drop, so the process is left
\* running.
Cancel ==
    /\ rpc = "p_read"
    /\ rpc' = "cancelled"
    /\ UNCHANGED <<depsVars, prog, ens, children, url, flow, toolEnv, prov, spawned, emitted, outdir,
                   history, notified, info, pl, result, response>>

\* lines 1286-1301: after the loop, the final record and the result.
PlaylistFinish ==
    /\ rpc = "p_item"
    /\ pl.index >= Len(pl.urls)
    /\ emitted' = Append(emitted,
          Progress(Full * pl.total, pl.total, pl.total, pl.total, Full, "Complete!", None))
    /\ result' = OkPlaylist(pl.total, pl.items)
    /\ rpc' = "return"
    /\ UNCHANGED <<depsVars, prog, ens, children, url, flow, toolEnv, prov, spawned, outdir, history, notified,
                   info, pl, response>>

RECURSIVE HistoryAddAll(_, _, _)
\* commands.rs lines 178-189: one history entry per downloaded video
HistoryAddAll(h, u, items) ==
    IF items = <<>> THEN h
    ELSE HistoryAddAll(HistoryAdd(h, [url |-> u, title |-> Head(items).title,
                                      output_path |-> Head(items).output_path]),
                       u, Tail(items))

\* Variant: the history and the notification do not wait for the outcome.
CommandReturnPlaylistSavingFirst ==
    /\ rpc = "return"
    /\ flow = "playlist"
    /\ history' = IF result.status = "err"
                    THEN HistoryAdd(history, [url |-> url, title |-> None, output_path |-> ""])
                  ELSE HistoryAddAll(history, url, result.downloaded_videos)
    /\ notified' = notified + 1
    /\ response' = result
    /\ rpc' = "done"
    /\ UNCHANGED <<depsVars, prog, ens, children, url, flow, toolEnv, prov, spawned, emitted, outdir, info, pl, result>>

\* download_from_youtube, commands.rs lines 174-199 (playlist)
CommandReturnPlaylist ==
    /\ rpc = "return"
    /\ flow = "playlist"
    /\ IF result.status = "err"
         THEN UNCHANGED <<history, notified>>
         ELSE /\ history' = HistoryAddAll(history, url, result.downloaded_videos)
              /\ notified' = notified + 1
    /\ response' = result
    /\ rpc' = "done"
    /\ UNCHANGED <<depsVars, prog, ens, children, url, flow, toolEnv, prov, spawned, emitted, outdir, info, pl, result>>

\* ensure_ytdlp / ensure_ffmpeg: the requests that run them concurrently.
NumRequests == 2
Requests == 1..NumRequests

\* get_local_ytdlp_path / get_local_ffmpeg_path hold nothing, a copy that does
\* not answer the version probe, or a working copy.
LocalChoices ==
    { NoFile,
      File(ResourceLen, ResourceLen, TRUE, FALSE),
      File(ResourceLen, ResourceLen, TRUE, TRUE) }

EnsureState(k, f, at) ==
    [tool |-> k, file |-> f, dir |-> Exists(f),
     pc |-> [r \in Requests |-> at],
     good |-> [r \in Requests |-> FALSE],
     ret |-> [r \in Requests |-> NoRet]]

\* No provisioning going on.
NoEnsure == EnsureState("yt-dlp", NoFile, "idle")

\* process_progress_line: the progress state before the first line.
ProgStart(total) ==
    [current_song |-> 0, song_progress |-> 0, status |-> "", current_title |-> None,
     completed_songs |-> 0, total_videos |-> total,
     last |-> <<>>, n |-> 0, panicked |-> FALSE]

\* No line processing going on.
NoProg == ProgStart(0)

\* ------------------------------------------------------- specifications
\* The request variables while only deps.rs is exercised.
ReqIdle ==
    /\ url = <<>>
    /\ rpc = "idle"
    /\ flow = "none"
    /\ toolEnv = [k \in DlTools |-> [local |-> "absent", onPath |-> FALSE]]
    /\ prov = [k \in DlTools |-> "none"]
    /\ spawned = [k \in ProcKinds |-> 0]
    /\ children = <<>>
    /\ emitted = <<>>
    /\ outdir = {}
    /\ history = <<>>
    /\ notified = 0
    /\ info = NoInfo
    /\ pl = NoPlaylist
    /\ prog = NoProg
    /\ ens = NoEnsure
    /\ result = NoResult
    /\ response = NoResult

\* The deps.rs variables while only a request is exercised.
DepsIdle ==
    /\ fs = [p \in Paths |-> NoFile]
    /\ binDir = FALSE
    /\ bundled = [t \in Tools |-> Unresolved]
    /\ lock = Unlocked
    /\ pc = [c \in Callers |-> "idle"]
    /\ tool = [c \in Callers |-> "yt-dlp"]
    /\ found = [c \in Callers |-> NotChecked]
    /\ ret = [c \in Callers |-> NoRet]
    /\ calls = [c \in Callers |-> 0]
    /\ cache0 = [t \in Tools |-> NoFile]

\* history.json before the request: one earlier download of another video.
HistoryBefore ==
    <<[url |-> <<"https://", "youtu.be/", "old">>, title |-> Some("Old"),
       output_path |-> "Old"]>>

\* The state in which download_from_youtube is invoked.
ReqInit ==
    /\ url \in UrlSamples
    /\ rpc = "start"
    /\ flow = "none"
    /\ toolEnv \in [DlTools -> EnvChoices]
    /\ prov = [k \in DlTools |-> "none"]
    /\ spawned = [k \in ProcKinds |-> 0]
    /\ children = <<>>
    /\ emitted = <<>>
    /\ outdir \in {{}, {"Song"}, {"Song", "a"}, {"A|B"}}
    /\ history = HistoryBefore
    /\ notified = 0
    /\ info = NoInfo
    /\ pl = NoPlaylist
    /\ prog = NoProg
    /\ ens = NoEnsure
    /\ result = NoResult
    /\ response = NoResult

ReqNext ==
    \/ Dispatch
    \/ Validate
    \/ Ensure("yt-dlp")
    \/ Ensure("ffmpeg")
    \/ SingleInfo
    \/ SingleTransfer
    \/ CommandReturnSingle
    \/ PlaylistEnumerate
    \/ PlaylistItem
    \/ PlaylistReadLine
    \/ PlaylistItemEnd
    \/ Cancel
    \/ PlaylistFinish
    \/ CommandReturnPlaylist

\* One request, nothing running in deps.rs.
ReqStart == ReqInit /\ DepsIdle

SpecReq == ReqStart /\ [][ReqNext]_vars

\* ------------------------------- download.rs: process_progress_line
\* The helper takes the progress state by mutable reference; no function of
\* the crate calls it, so the state it starts from is that of a caller that
\* initialises every local to its zero value.
\* Lines processed in one run of SpecLine.
MaxLines == 3

\* The length in bytes of a token that stands for several characters.
Width(c) ==
    CASE c = "[download]" -> 10
      [] c = "[youtube]" -> 9
      [] c = "[ExtractAudio]" -> 14
      [] c = "[Merger]" -> 8
      [] c = "[playlist]" -> 10
      [] c = "[info]" -> 6
      [] c = "Extracting" -> 10
      [] c = "Downloading" -> 11
      [] c = "Destination" -> 11
      [] c = "Video" -> 5
      [] c = "Title" -> 5
      [] c = "title" -> 5
      [] c = "item" -> 4
      [] c = "http" -> 4
      [] c = "webpage" -> 7
      [] c = "dQw4w9WgXcQ" -> 11
      [] c = "URL" -> 3
      [] c = "ID" -> 2
      [] OTHER -> Bytes(c)

\* str::len
RECURSIVE StrLen(_)
StrLen(l) == IF l = <<>> THEN 0 ELSE Width(Head(l)) + StrLen(Tail(l))

\* The tokens that end with ']'.
Tags == {"[download]", "[youtube]", "[ExtractAudio]", "[Merger]", "[playlist]", "[info]"}

\* str::find of a one-token pattern: the position of its first occurrence, 0
\* when there is none.
FindToken(l, toks) ==
    IF \E i \in 1..Len(l) : l[i] \in toks
      THEN CHOOSE i \in 1..Len(l) : l[i] \in toks /\ \A j \in 1..i - 1 : l[j] \notin toks
      ELSE 0

\* what follows position i
After(l, i) == SubSeq(l, i + 1, Len(l))

\* str::parse::<usize>: digits only, at least one; -1 when the text is no number
ParseUsize(t) ==
    IF t = <<>> \/ \E i \in 1..Len(t) : t[i] \notin Digit THEN -1 ELSE Whole(t)

\* More lines a fetcher writes.
LineVideoId == <<"[youtube]", " ", "Video", " ", "ID", ":", " ", "dQw4w9WgXcQ">>
LineExtractingUrl == <<"[youtube]", " ", "Extracting", " ", "URL", ":", " ", "http", "s">>
LineWebpage == <<"[youtube]", " ", "a", ":", " ", "Downloading", " ", "webpage">>
LinePlaylistItem ==
    <<"[playlist]", " ", "Downloading", " ", "item", " ", "2", " ", "o", "f", " ", "5">>
LineItemTight == <<"[playlist]", " ", "Downloading", " ", "item", "2", " ", "o", "f">>
LineTitle == <<"[info]", " ", "Title", ":", " ", "S">>

LineSamples ==
    { Line452, Line454, Line0, Line100, Line150, LineDestination, LineYoutube,
      LineExtractAudio, LineMerger, LineBlank, LineWide, LineVideoId,
      LineExtractingUrl, LineWebpage, LinePlaylistItem, LineItemTight, LineTitle }

Min(a, b) == IF a <= b THEN a ELSE b

\* The record emitted with the state s: overall_progress is
\* (completed_songs + part / 100) / total_videos * 100 when total_videos > 0,
\* else the given default.
ProgRecord(s, part, dflt, cur, song, title) ==
    IF s.total_videos > 0
      THEN Progress(s.completed_songs * Full + part, s.total_videos, cur,
                    s.total_videos, song, s.status, title)
      ELSE Progress(dflt, 1, cur, s.total_videos, song, s.status, title)

\* (new_progress - *song_progress).abs() > 0.1 || *song_progress == 0.0; the
\* lines tried carry no two numbers exactly 0.1 apart.
Changed(new, old) == Abs(new - old) > 1 \/ old = 0

\* lines 718-774: a line containing "[download]"
DownloadLine(line, s) ==
    LET pp == FindPercent(line)
        sc == ScanBack(line, pp, FALSE)
        numbered == sc.found_digit /\ sc.num_start < pp
        v == ParseF64(Trim(ByteSlice(line, sc.num_start, pp)))
        new == Clamp(v)
        emits == numbered /\ v >= 0 /\ Changed(new, s.song_progress)
        s1 == IF emits THEN [s EXCEPT !.song_progress = new, !.status = "Downloading..."]
              ELSE s
        s2 == IF Contains(line, <<"1", "0", "0", "%">>) \/ s1.song_progress >= 999
                THEN [s1 EXCEPT !.song_progress = Full]
              ELSE s1
    IN IF pp < 0 THEN [s |-> s, out |-> <<>>, panic |-> FALSE]
       ELSE IF numbered /\ ~IsCharBoundary(line, sc.num_start)
         THEN [s |-> s, out |-> <<>>, panic |-> TRUE]
       ELSE [s |-> s2,
             out |-> IF emits
                       THEN <<ProgRecord(s1, s1.song_progress, s1.song_progress,
                                         s1.current_song + 1, s1.song_progress,
                                         s1.current_title)>>
                     ELSE <<>>,
             panic |-> FALSE]

\* lines 776-816: "[ExtractAudio]" (90) and "[Merger]" / "Merging formats" (95)
ConvertLine(s, status, song) ==
    LET s1 == [s EXCEPT !.status = status, !.song_progress = song]
    IN [s |-> s1,
        out |-> <<ProgRecord(s1, song, song, s1.current_song + 1, song, s1.current_title)>>,
        panic |-> FALSE]

\* line 820: the "[youtube]" line announces a video
AnnouncesVideo(line) ==
    \/ Contains(line, <<"Extracting", " ", "URL">>)
    \/ Contains(line, <<"Video", " ", "ID">>)
    \/ Contains(line, <<"Downloading">>)

\* lines 819-856: a "[youtube]" line
ItemStartLine(line, s) ==
    LET near == s.song_progress >= 990
        s1 == [s EXCEPT !.completed_songs =
                            IF near /\ s.current_song > 0
                              THEN Min(@ + 1, s.total_videos) ELSE @,
                        !.current_song = IF near \/ s.current_song = 0 THEN @ + 1 ELSE @]
        s2 == [s1 EXCEPT !.song_progress = 0, !.status = "Preparing download...",
                         !.current_title = None]
    IN IF AnnouncesVideo(line)
         THEN IF near
                THEN [s |-> s2,
                      out |-> <<ProgRecord(s2, 0, 0, s2.current_song, 0, None)>>,
                      panic |-> FALSE]
              ELSE [s |-> s1, out |-> <<>>, panic |-> FALSE]
       ELSE [s |-> s, out |-> <<>>, panic |-> FALSE]

\* lines 884-912: "Downloading item N ..." of a playlist
PlaylistItemLine(line, s) ==
    LET rest == After(line, FindToken(line, {"item"}))
        num_end == FindToken(rest, {" "})
        item_num == ParseUsize(Trim(SubSeq(rest, 1, num_end - 1)))
        s1 == [s EXCEPT !.current_song = IF item_num > 0 THEN item_num - 1 ELSE 0,
                        !.song_progress = 0, !.status = "Starting download..."]
    IN IF num_end > 0 /\ item_num >= 0
         THEN [s |-> s1,
               out |-> <<ProgRecord(s1, 0, 0, s1.current_song + 1, 0, s1.current_title)>>,
               panic |-> FALSE]
       ELSE [s |-> s, out |-> <<>>, panic |-> FALSE]

\* lines 859-882: a "[download]" line naming the destination, or carrying
\* "100%" while song_progress is below 50
CompletionLine(s) ==
    LET s1 == [s EXCEPT !.song_progress = Full, !.completed_songs = @ + 1,
                        !.status = "Download complete"]
    IN IF s.song_progress < Full
         THEN [s |-> s1,
               out |-> <<IF s1.total_videos > 0
                           THEN Progress(s1.completed_songs * Full, s1.total_videos,
                                         s1.current_song + 1, s1.total_videos, Full,
                                         s1.status, s1.current_title)
                         ELSE Progress(Full, 1, s1.current_song + 1, s1.total_videos, Full,
                                       s1.status, s1.current_title)>>,
               panic |-> FALSE]
       ELSE [s |-> s, out |-> <<>>, panic |-> FALSE]

\* lines 718-912: the chain of patterns, tried in the order of the source.
PatternChain(line, s) ==
    IF HasTag(line, "[download]") THEN DownloadLine(line, s)
    ELSE IF HasTag(line, "[ExtractAudio]") THEN ConvertLine(s, "Extracting audio...", 900)
    ELSE IF HasTag(line, "[Merger]") \/ Contains(line, <<"Merging", " ", "formats">>)
      THEN ConvertLine(s, "Converting to MP3...", 950)
    ELSE IF HasTag(line, "[youtube]") THEN ItemStartLine(line, s)
    ELSE IF /\ HasTag(line, "[download]")
            /\ \/ Contains(line, <<"Destination", ":">>)
               \/ Contains(line, <<"1", "0", "0", "%">>) /\ s.song_progress < 500
      THEN CompletionLine(s)
    ELSE IF /\ \/ Contains(line, <<"Downloading", " ", "playlist">>)
               \/ HasTag(line, "[playlist]")
            /\ Contains(line, <<"Downloading", " ", "item">>)
      THEN PlaylistItemLine(line, s)
    ELSE [s |-> s, out |-> <<>>, panic |-> FALSE]

\* lines 915-954: a title taken from the line when none is known (the titles
\* tried are shorter than 200 bytes)
\* Variant: a stored title does not keep the line from being searched.
TitleKnownNever(s) == FALSE

\* line 915: !(current_title.is_none() || current_title is empty)
TitleKnown(s) == s.current_title # None /\ s.current_title # Some(<<>>)

TitleFromLine(line, s) ==
    LET marker == FindToken(ToLowercase(line), {"title"})
        after_title == After(line, marker)
        colon == FindToken(after_title, {":"})
        named == Trim(After(after_title, colon))
        bare == Trim(After(line, FindToken(line, Tags)))
        s1 == [s EXCEPT !.current_title = Some(named)]
    IN IF TitleKnown(s)
         THEN [s |-> s, out |-> <<>>]
       ELSE IF marker > 0
         THEN IF colon > 0 /\ named # <<>>
                THEN [s |-> s1,
                      out |-> <<ProgRecord(s1, s1.song_progress, s1.song_progress,
                                           s1.current_song + 1, s1.song_progress,
                                           s1.current_title)>>]
              ELSE [s |-> s, out |-> <<>>]
       ELSE IF /\ HasTag(line, "[youtube]") /\ StrLen(line) > 20
               /\ bare # <<>> /\ ~Contains(bare, <<"http">>)
         THEN [s |-> [s EXCEPT !.current_title = Some(bare)], out |-> <<>>]
       ELSE [s |-> s, out |-> <<>>]

\* lines 705-955
ProcessProgressLine(line, s) ==
    LET a == PatternChain(line, s)
        b == TitleFromLine(line, a.s)
    IN IF a.panic THEN [s |-> s, out |-> <<>>, panic |-> TRUE]
       ELSE [s |-> b.s, out |-> a.out \o b.out, panic |-> FALSE]

\* One call of process_progress_line on the next line of a stream.
ProcessLine ==
    /\ rpc = "lines"
    /\ ~prog.panicked
    /\ prog.n < MaxLines
    /\ \E line \in LineSamples :
          LET r == ProcessProgressLine(line, prog)
          IN /\ prog' = [r.s EXCEPT !.last = line, !.n = prog.n + 1, !.panicked = r.panic]
             /\ emitted' = emitted \o r.out
    /\ UNCHANGED <<depsVars, ens, children, url, rpc, flow, toolEnv, prov, spawned, outdir,
                   history, notified, info, pl, result, response>>

\* A stream of lines is about to be processed for a playlist of `total` videos.
LineInit ==
    /\ url = <<>>
    /\ rpc = "lines"
    /\ flow = "none"
    /\ toolEnv = [k \in DlTools |-> [local |-> "absent", onPath |-> FALSE]]
    /\ prov = [k \in DlTools |-> "none"]
    /\ spawned = [k \in ProcKinds |-> 0]
    /\ children = <<>>
    /\ emitted = <<>>
    /\ outdir = {}
    /\ history = <<>>
    /\ notified = 0
    /\ info = NoInfo
    /\ pl = NoPlaylist
    /\ prog \in {ProgStart(total) : total \in {0, 1, 2}}
    /\ ens = NoEnsure
    /\ result = NoResult
    /\ response = NoResult

LineNext ==
    \/ ProcessLine

LineStart == LineInit /\ DepsIdle

SpecLine == LineStart /\ [][LineNext]_vars

\* ------------------- download.rs: ensure_ytdlp / ensure_ffmpeg, concurrently
\* Two requests run ensure_<tool> for the same tool at the same time (the
\* command is async and nothing serialises its invocations). The tool is not
\* on PATH, so a request that finds no working local copy goes on to
\* download_<tool>. The unix build is modelled: the download is written to the
\* local path as it is (lines 222 and 365).
\* check_command, lines 78-79: local.exists()
CheckLocal(r) ==
    /\ ens.pc[r] = "check"
    /\ ens' = [ens EXCEPT !.pc[r] = IF Exists(ens.file) THEN "check_probe" ELSE "mkdir"]
    /\ UNCHANGED <<depsVars, reqLocals>>

\* check_command, lines 80-87 and 91-102: the version probe of the local copy
\* returns; the names tried on PATH are not found.
CheckProbe(r) ==
    /\ ens.pc[r] = "check_probe"
    /\ IF ProbeOK(ens.file)
         THEN ens' = [ens EXCEPT !.pc[r] = "done", !.ret[r] = RetOk("local", ens.file)]
         ELSE ens' = [ens EXCEPT !.pc[r] = "mkdir"]
    /\ UNCHANGED <<depsVars, reqLocals>>

\* download_ytdlp, lines 167-171: create_dir_all, then ytdlp_path.exists()
DownloadExists(r) ==
    /\ ens.pc[r] = "mkdir"
    /\ ens' = [ens EXCEPT !.dir = TRUE,
                          !.pc[r] = IF Exists(ens.file) THEN "probe" ELSE "fetch"]
    /\ UNCHANGED <<depsVars, reqLocals>>

\* download_ytdlp, lines 172-183: the version probe of what is there; a copy
\* that fails it is deleted
DownloadProbe(r) ==
    /\ ens.pc[r] = "probe"
    /\ IF ProbeOK(ens.file)
         THEN ens' = [ens EXCEPT !.pc[r] = "done", !.ret[r] = RetOk("local", ens.file)]
         ELSE ens' = [ens EXCEPT !.pc[r] = "fetch", !.file = NoFile]
    /\ UNCHANGED <<depsVars, reqLocals>>

\* download_ytdlp, lines 205-219: the GET and the body; what arrives is a
\* working program or not
Fetch(r) ==
    /\ ens.pc[r] = "fetch"
    /\ \E n \in {"failed", "good", "bad"} :
          IF n = "failed"
            THEN ens' = [ens EXCEPT !.pc[r] = "done", !.ret[r] = RetErr("download")]
            ELSE ens' = [ens EXCEPT !.pc[r] = "open", !.good[r] = (n = "good")]
    /\ UNCHANGED <<depsVars, reqLocals>>

\* download_ytdlp, line 222: fs::write creates the file, or truncates the one
\* that is there (keeping its permission bits)
WriteOpen(r) ==
    /\ ens.pc[r] = "open"
    /\ ens' = [ens EXCEPT !.pc[r] = "write",
                          !.file = File(0, ResourceLen,
                                        Exists(ens.file) /\ ens.file.exec, ens.good[r])]
    /\ UNCHANGED <<depsVars, reqLocals>>

\* download_ytdlp, line 222: fs::write has written the whole body. The request
\* writes through its own descriptor; a file deleted and created anew since
\* the open is taken to be the file written to, a path left empty stays empty.
WriteAll(r) ==
    /\ ens.pc[r] = "write"
    /\ ens' = [ens EXCEPT !.pc[r] = "chmod",
                          !.file = IF Exists(@)
                                     THEN File(ResourceLen, ResourceLen, @.exec, ens.good[r])
                                   ELSE @]
    /\ UNCHANGED <<depsVars, reqLocals>>

\* download_ytdlp, lines 226-235: fs::metadata(path)? and set_permissions(0o755)
SetExecutable(r) ==
    /\ ens.pc[r] = "chmod"
    /\ IF Exists(ens.file)
         THEN ens' = [ens EXCEPT !.pc[r] = "verify", !.file.exec = TRUE]
         ELSE ens' = [ens EXCEPT !.pc[r] = "done", !.ret[r] = RetErr("metadata")]
    /\ UNCHANGED <<depsVars, reqLocals>>

\* download_ytdlp, lines 238-248: the version probe of the download; a
\* download that fails it is deleted
Verify(r) ==
    /\ ens.pc[r] = "verify"
    /\ IF ProbeOK(ens.file)
         THEN ens' = [ens EXCEPT !.pc[r] = "done", !.ret[r] = RetOk("downloaded", ens.file)]
         ELSE ens' = [ens EXCEPT !.pc[r] = "done", !.ret[r] = RetErr("not working"),
                                 !.file = NoFile]
    /\ UNCHANGED <<depsVars, reqLocals>>

\* Two requests are about to call ensure_<tool>.
EnsureInit ==
    /\ ens \in {EnsureState(k, f, "check") : k \in DlTools, f \in LocalChoices}
    /\ url = <<>>
    /\ rpc = "ensure"
    /\ flow = "none"
    /\ toolEnv = [k \in DlTools |-> [local |-> "absent", onPath |-> FALSE]]
    /\ prov = [k \in DlTools |-> "none"]
    /\ spawned = [k \in ProcKinds |-> 0]
    /\ children = <<>>
    /\ emitted = <<>>
    /\ outdir = {}
    /\ history = <<>>
    /\ notified = 0
    /\ info = NoInfo
    /\ pl = NoPlaylist
    /\ prog = NoProg
    /\ result = NoResult
    /\ response = NoResult

EnsureNext ==
    \E r \in Requests :
        \/ CheckLocal(r)
        \/ CheckProbe(r)
        \/ DownloadExists(r)
        \/ DownloadProbe(r)
        \/ Fetch(r)
        \/ WriteOpen(r)
        \/ WriteAll(r)
        \/ SetExecutable(r)
        \/ Verify(r)

EnsureStart == EnsureInit /\ DepsIdle

SpecEnsure == EnsureStart /\ [][EnsureNext]_vars



\* ------------------------------------------- download.rs: properties
\* Processes that do the request's work (all but the version probes).
WorkSpawned == spawned["meta"] + spawned["enum"] + spawned["transfer"]

\* C8: a request whose URL has none of the accepted shapes does nothing but
\* fail: no step of it starts provisioning, spawns a process, emits a progress
\* record, writes the history or shows a notification, and the command returns
\* the invalid-URL error.
C8_InvalidUrlRejectedFirst ==
    [][ (~IsYoutubeUrl(url)) =>
          /\ prov' = prov /\ toolEnv' = toolEnv
          /\ spawned' = spawned
          /\ emitted' = emitted
          /\ history' = history /\ notified' = notified
          /\ outdir' = outdir
          /\ rpc' \in {"validate", "return", "done"}
          /\ rpc' \in {"return", "done"} => result' = Err("invalid url")
          /\ rpc' = "done" => response' = Err("invalid url") ]_vars

\* C8 witness: the command has returned the error for a URL of no accepted
\* shape that nevertheless names the site and carries a list= parameter.
C8_Witness ==
    /\ ~IsYoutubeUrl(url)
    /\ Contains(url, <<"youtube.com/">>)
    /\ rpc = "done"
    /\ response = Err("invalid url")

\* C9: a metadata query, an enumeration or a transfer is spawned only after
\* both ensure_ytdlp and ensure_ffmpeg succeeded; when either fails, the
\* request returns the setup error and no such process, no progress record, no
\* history entry and no notification comes from it.
C9_ProvisioningFirst ==
    /\ WorkSpawned > 0 => (prov["yt-dlp"] = "ok" /\ prov["ffmpeg"] = "ok")
    /\ rpc \in {"s_info", "s_transfer", "p_enum", "p_item", "p_read"} =>
          (prov["yt-dlp"] = "ok" /\ prov["ffmpeg"] = "ok")
    /\ (\E k \in DlTools : prov[k] = "failed") =>
          /\ WorkSpawned = 0
          /\ emitted = <<>>
          /\ history = HistoryBefore /\ notified = 0
          /\ rpc \in {"return", "done"}
          /\ result = Err("setup failed")
          /\ rpc = "done" => response = Err("setup failed")

\* C9 witness: yt-dlp was set up, ffmpeg could not be, and the command has
\* returned the error.
C9_Witness ==
    /\ prov["yt-dlp"] = "ok"
    /\ prov["ffmpeg"] = "failed"
    /\ rpc = "done"
    /\ response.status = "err"

\* C10: in the single-item flow the request never returns an error because the
\* output of the metadata query could not be parsed; it goes on to the
\* transfer with a fallback name.
C10_UnparsedMetadataNotFatal ==
    flow = "single" => result # Err("parse video info")

\* Playlist items whose turn of the loop ended with one of the outcomes `kinds`
\* ("skipped": file already there, "done": transfer exited with status zero,
\* "failed": transfer exited with another status).
Ended(kinds) == Cardinality({i \in 1..Len(pl.outcomes) : pl.outcomes[i] \in kinds})

\* This step ends the turn of one playlist item with outcome o.
TurnEnds(o) ==
    /\ Len(pl'.outcomes) = Len(pl.outcomes) + 1
    /\ pl'.outcomes[Len(pl'.outcomes)] = o

PlaylistReturned == flow = "playlist" /\ rpc \in {"return", "done"} /\ result.status = "ok"

\* C11: when the transfer of a playlist item exits with a non-zero status the
\* loop goes on to the next item, adding no result for the failed one and
\* leaving the total alone; the returned result has total_videos equal to the
\* enumerated count and no more entries than items skipped or transferred
\* (exactly as many when the output folder had no .mp3 before the run).
C11_ItemFailureIsolated ==
    /\ [][ TurnEnds("failed") =>
             /\ rpc' = "p_item"
             /\ pl'.index = pl.index + 1
             /\ pl'.items = pl.items
             /\ pl'.total = pl.total
             /\ result' = result ]_vars
    /\ [](PlaylistReturned =>
             /\ result.total_videos = Len(pl.entries)
             /\ Len(result.downloaded_videos) <= Ended({"skipped", "done"})
             /\ pl.existing = {} =>
                   Len(result.downloaded_videos) = Ended({"skipped", "done"}))

\* C11 witness: two videos enumerated, the first transfer failed, the second
\* succeeded; the command returned total_videos = 2 with one entry.
C11_Witness ==
    /\ rpc = "done"
    /\ response.status = "ok"
    /\ pl.outcomes = <<"failed", "done">>
    /\ response.total_videos = 2
    /\ Len(response.downloaded_videos) = 1

\* C12: no failure of one playlist item's transfer ends the request: neither a
\* failure to spawn the transfer nor a failure to wait for its exit makes the
\* playlist download return an error.
C12_ItemFailuresSkipped ==
    flow = "playlist" =>
        result \notin {Err("start download: spawn"), Err("wait for process")}

\* C13: in the single-item flow a transfer that exits with a non-zero status
\* makes the request fail: the download returns the error, the command hands
\* it on, and no result, history entry or notification comes of it.
C13_SingleFailureIsFatal ==
    (flow = "single" /\ \E i \in 1..Len(children) : children[i].state = "exited_failed") =>
        /\ rpc \in {"return", "done"}
        /\ result = Err("download failed: exit status")
        /\ rpc = "done" =>
              /\ response = Err("download failed: exit status")
              /\ history = HistoryBefore
              /\ notified = 0

\* C13 witness: the transfer exited with a non-zero status and the command
\* returned the error.
C13_Witness ==
    /\ flow = "single"
    /\ children = <<Child(0, "exited_failed")>>
    /\ rpc = "done"
    /\ response.status = "err"

\* The file a successful transfer of video v leaves in the output folder.
Artifact(v) == FetcherStem(Some(VideoTitle(v)))

\* The enumerated videos whose artifact was in the output folder before the run.
AlreadyThere == {i \in 1..Len(pl.urls) : Artifact(pl.urls[i].vid) \in pl.existing}

\* C14: a playlist download over a folder that already holds the artifacts of
\* N of the M enumerated items spawns exactly M - N transfer processes.
C14_RerunSpawnsMissingOnly ==
    PlaylistReturned => spawned["transfer"] = pl.total - Cardinality(AlreadyThere)

\* What a turn that skips an existing file does, apart from child processes:
\* one result for a file that is in the output folder, one record with
\* song_progress = 100 and the skip status as the last one emitted, and on to
\* the next item.
SkipTurn ==
    /\ Len(pl'.items) = Len(pl.items) + 1
    /\ SubSeq(pl'.items, 1, Len(pl.items)) = pl.items
    /\ pl'.items[Len(pl'.items)].output_path \in outdir
    /\ Len(emitted') > Len(emitted)
    /\ emitted'[Len(emitted')] =
          Progress((pl.index + 1) * Full, pl.total, pl.index + 1, pl.total, Full,
                   "Already exists, skipping...", pl'.items[Len(pl'.items)].title)
    /\ \A i \in Len(emitted) + 1 .. Len(emitted') - 1 : emitted'[i].song_progress = 0
    /\ pl'.index = pl.index + 1
    /\ rpc' = "p_item"
    /\ outdir' = outdir

\* C15 as stated: the turn of a playlist item whose expected output file
\* exists adds the result, emits the skip record and moves on, and spawns no
\* child process of any kind for the item.
C15_SkipSpawnsNothing ==
    [][ TurnEnds("skipped") => (SkipTurn /\ spawned' = spawned /\ children' = children) ]_vars

\* C15 amended: such a turn adds the result, emits the skip record and moves
\* on without spawning a transfer process; the only process it may have
\* spawned for the item is the metadata query that precedes the check.
C15_SkipSpawnsNoTransfer ==
    [][ TurnEnds("skipped") =>
          /\ SkipTurn
          /\ children' = children
          /\ \A k \in ProcKinds \ {"meta"} : spawned'[k] = spawned[k]
          /\ spawned'["meta"] \in {spawned["meta"], spawned["meta"] + 1} ]_vars

\* C15 witness: the first item was skipped after its metadata query ran, and
\* no transfer was spawned.
C15_Witness ==
    /\ rpc = "p_item"
    /\ pl.outcomes = <<"skipped">>
    /\ spawned["meta"] = 1
    /\ spawned["transfer"] = 0
    /\ emitted[Len(emitted)].status = "Already exists, skipping..."

\* C16: from enumeration on total_videos is the number of entries enumerated,
\* whatever happens to the items; downloaded_videos has at most one entry per
\* item skipped or transferred, so never more than total_videos; the result
\* returned carries exactly these two values.
C16_TotalFixedItemsBounded ==
    (flow = "playlist" /\ pl.listed /\ pl.entries # <<>>) =>
        /\ pl.total = Len(pl.entries)
        /\ Len(pl.items) <= Ended({"skipped", "done"})
        /\ Len(pl.outcomes) <= pl.total
        /\ Len(pl.items) <= pl.total
        /\ result.status = "ok" =>
              /\ result.total_videos = Len(pl.entries)
              /\ result.downloaded_videos = pl.items
        /\ response.status = "ok" => response = result

\* C16 witness: two entries enumerated, one without id or url and one whose
\* transfer failed: the command returned total_videos = 2 and no entry.
C16_Witness ==
    /\ rpc = "done"
    /\ response.status = "ok"
    /\ pl.entries = <<EntryBare, EntryId("a")>>
    /\ pl.outcomes = <<"failed">>
    /\ response.total_videos = 2
    /\ response.downloaded_videos = <<>>

\* C17: when the enumeration gives no entry the request fails with the
\* empty-playlist error before any per-item step: no metadata query and no
\* transfer is spawned, no progress record is emitted, and nothing is added to
\* the history.
C17_EmptyPlaylistFails ==
    (flow = "playlist" /\ pl.listed /\ pl.entries = <<>>) =>
        /\ rpc \in {"return", "done"}
        /\ result = Err("empty playlist")
        /\ spawned["transfer"] = 0 /\ spawned["meta"] = 0
        /\ children = <<>>
        /\ emitted = <<>>
        /\ rpc = "done" =>
              (response = Err("empty playlist") /\ history = HistoryBefore /\ notified = 0)

\* C17 witness: the enumeration ran, gave nothing, and the command returned the
\* error.
C17_Witness ==
    /\ flow = "playlist"
    /\ pl.listed /\ pl.entries = <<>>
    /\ spawned["enum"] = 1
    /\ rpc = "done"
    /\ response = Err("empty playlist")

\* C18: whenever the single-item flow returns a result, the file at the
\* returned output_path is in the output folder.
C18_ReturnedArtifactExists ==
    (flow = "single" /\ result.status = "ok") => result.output_path \in outdir

\* C19: in the single-item flow, when the expected output file exists once the
\* metadata are known, the download returns a result for that file at once,
\* with no transfer spawned then or later in the request.
C19_SingleExistingFileShortCircuits ==
    /\ [][ (flow = "single" /\ rpc = "s_info" /\ info' # NoInfo /\ info'.stem \in outdir) =>
             /\ rpc' = "return"
             /\ result' = OkSingle(info', TRUE)
             /\ children' = children
             /\ spawned'["transfer"] = spawned["transfer"]
             /\ outdir' = outdir ]_vars
    /\ []((flow = "single" /\ children = <<>>) =>
             /\ spawned["transfer"] = 0
             /\ (rpc \in {"return", "done"} /\ result.status = "ok") =>
                   (result.output_path \in outdir /\ result.has_size)
             /\ (rpc = "done" /\ result.status = "ok") => response = result)

\* C19 witness: the command returned a result for a file that was already
\* there, and no transfer was spawned.
C19_Witness ==
    /\ flow = "single"
    /\ rpc = "done"
    /\ response.status = "ok"
    /\ response.output_path \in outdir
    /\ children = <<>>
    /\ spawned["transfer"] = 0

\* C20: within a playlist request the transfers are sequential: at most one
\* transfer process is alive, every transfer but the last spawned has exited,
\* they are spawned in item order, and none is alive when the loop turns to
\* the next item.
C20_TransfersSequential ==
    flow = "playlist" =>
        /\ Cardinality(Running(children)) <= 1
        /\ \A i \in 1..Len(children) - 1 :
              children[i].state \in {"exited_ok", "exited_failed"}
        /\ \A i, j \in 1..Len(children) : i < j => children[i].item < children[j].item
        /\ rpc = "p_item" => Running(children) = {}
        /\ Len(children) = spawned["transfer"]

\* C20 witness: the transfer of the first item has exited and that of the
\* second is running.
C20_Witness ==
    /\ flow = "playlist"
    /\ Len(children) = 2
    /\ children[1].state = "exited_ok"
    /\ children[2] = Child(2, "running")

\* a's overall_progress is at most b's
OverallLeq(a, b) == a.overall_num * b.overall_den <= b.overall_num * a.overall_den

\* C21: once a request is cancelled while a transfer is running, no transfer
\* process of it is left alive.
C21_CancelTerminatesChild ==
    rpc = "cancelled" => Running(children) = {}

\* C22: every progress record the playlist download emits has song_progress
\* and overall_progress between 0 and 100, whatever the lines read and the
\* outcomes of the items.
C22_FractionsInRange ==
    flow = "playlist" =>
        \A i \in 1..Len(emitted) :
            /\ 0 <= emitted[i].song_progress /\ emitted[i].song_progress <= Full
            /\ emitted[i].overall_den > 0
            /\ 0 <= emitted[i].overall_num
            /\ emitted[i].overall_num <= Full * emitted[i].overall_den

\* C22 witness: the lines 0.0%, 0.0%, 150% were read; the last record emitted
\* has the percentage clamped to 100.
C22_Witness ==
    /\ rpc = "p_read"
    /\ pl.read = <<Line0, Line0, Line150>>
    /\ emitted[Len(emitted)].song_progress = Full
    /\ emitted[Len(emitted) - 1].song_progress = 0

\* C23: within one playlist download the overall_progress of successive
\* progress records never decreases.
C23_OverallNeverDecreases ==
    flow = "playlist" =>
        \A i \in 1..Len(emitted) - 1 : OverallLeq(emitted[i], emitted[i + 1])

\* The values of the percentage lines among the lines l, in order.
RECURSIVE PercentValues(_)
PercentValues(l) ==
    IF l = <<>> THEN <<>>
    ELSE IF Classify(Head(l)).k = "percent"
      THEN <<Classify(Head(l)).v>> \o PercentValues(Tail(l))
    ELSE PercentValues(Tail(l))

NonDecreasing(q) == \A i \in 1..Len(q) - 1 : q[i] <= q[i + 1]

\* C24: while one item's transfer is read, if the values of the percentage
\* lines read so far are non-decreasing, the song_progress of the records
\* emitted since the transfer began is non-decreasing.
C24_ItemFractionMonotone ==
    (flow = "playlist" /\ rpc = "p_read" /\ NonDecreasing(PercentValues(pl.read))) =>
        \A i, j \in pl.mark + 1 .. Len(emitted) :
            i < j => emitted[i].song_progress <= emitted[j].song_progress

\* What a percentage line read now would make of song_progress: its number
\* kept within 0..100.
HeadPercent ==
    LET v == Classify(Head(pl.lines)).v
    IN IF v > 1000 THEN 1000 ELSE v

AtPercentLine ==
    /\ rpc = "p_read"
    /\ pl.lines # <<>>
    /\ Classify(Head(pl.lines)).k = "percent"

\* C25: after a percentage line is processed song_progress is the number of
\* the line clamped to 0..100, up to the update threshold, and the record
\* emitted for it has the status "Downloading...".
C25_PercentLineSetsDownloading ==
    [][ (AtPercentLine /\ rpc' # "cancelled") =>
          /\ rpc' = "p_read"
          /\ Abs(pl'.song - HeadPercent) <= 5
          /\ emitted' # emitted => emitted'[Len(emitted')].status = "Downloading..." ]_vars

\* C26: every request that spawned a transfer has, when it is over, emitted
\* progress records of which the last has overall_progress = 100 and the
\* status "Complete!".
C26_FinalRecordAlways ==
    (rpc = "done" /\ spawned["transfer"] > 0) =>
        /\ emitted # <<>>
        /\ emitted[Len(emitted)].status = "Complete!"
        /\ emitted[Len(emitted)].overall_num = Full * emitted[Len(emitted)].overall_den

\* C27: a line that is neither a percentage nor a conversion line changes
\* nothing but the position in the stream and emits nothing, and no line makes
\* the reading loop panic.
C27_UnknownLinesIgnored ==
    [][ (rpc = "p_read" /\ pl.lines # <<>> /\ rpc' # "cancelled") =>
          /\ rpc' # "panicked"
          /\ Classify(Head(pl.lines)).k = "none" =>
                /\ emitted' = emitted
                /\ rpc' = "p_read"
                /\ pl' = [pl EXCEPT !.lines = Tail(@), !.read = Append(@, Head(pl.lines))] ]_vars

\* C29: a percentage line whose clamped number is within the update threshold
\* of the current song_progress changes nothing and emits nothing, also when
\* song_progress is 0.
C29_NearDuplicateSilent ==
    [][ (AtPercentLine /\ Abs(HeadPercent - pl.song) <= 5) =>
          (emitted' = emitted /\ pl'.song = pl.song) ]_vars

\* C28: every record on the "download-progress" channel names the request
\* that produced it, so that a listener can tell the records of concurrent
\* requests apart.
C28_RecordsKeyedByRequest ==
    \A i \in 1..Len(emitted) : "request" \in DOMAIN emitted[i]

\* C30: when process_progress_line reads a line announcing a video while
\* song_progress is at 99 or more (and not all videos are counted yet),
\* completed_songs and current_song both grow by one, song_progress is 0, the
\* status is "Preparing download..." and there is no title, also for the first
\* video of the stream.
C30_ItemStartAdvances ==
    [][ ( /\ rpc = "lines"
          /\ prog'.n = prog.n + 1
          /\ HasTag(prog'.last, "[youtube]") /\ AnnouncesVideo(prog'.last)
          /\ prog.song_progress >= 990
          /\ prog.completed_songs < prog.total_videos ) =>
          /\ prog'.completed_songs = prog.completed_songs + 1
          /\ prog'.current_song = prog.current_song + 1
          /\ prog'.song_progress = 0
          /\ prog'.status = "Preparing download..."
          /\ prog'.current_title = None ]_vars

\* C35: while the request reads an item's transfer it can always take a
\* further step, reading a line or seeing the stream end and the process exit,
\* whatever the transfer writes to its standard output and error streams.
C35_TransferNeverStuck ==
    rpc = "p_read" => (LineReady \/ StreamEnded)

\* C38: the entries of a playlist's downloaded_videos name pairwise different
\* files, and the entry added after the transfer of an item names the file
\* that transfer produced.
C38_EntriesDistinctAndOwn ==
    /\ [](flow = "playlist" =>
            \A i, j \in 1..Len(pl.items) :
                i # j => pl.items[i].output_path # pl.items[j].output_path)
    /\ [][ (StreamEnded /\ rpc' = "p_item" /\ Len(pl'.items) = Len(pl.items) + 1) =>
              pl'.items[Len(pl'.items)].output_path = Artifact(pl.urls[pl.index + 1].vid) ]_vars

\* C39: when the playlist download returns its result, as many items have been
\* processed (skipped, transferred or failed) as total_videos counts.
C39_EveryCountedItemProcessed ==
    PlaylistReturned => Len(pl.outcomes) = pl.total

\* C40: the history is written and the notification shown only after the
\* download has returned a result: while the download's outcome is an error,
\* history.json holds what it held before and no notification has been shown,
\* and every step that changes either starts from a successful result.
C40_ErrorLeavesHistory ==
    /\ [](result.status = "err" => (history = HistoryBefore /\ notified = 0))
    /\ [][ (history' # history \/ notified' # notified) =>
              (rpc = "return" /\ result.status = "ok") ]_vars

\* C40 witness: a playlist request whose transfer could not be waited for has
\* returned the error; the history is as before.
C40_Witness ==
    /\ rpc = "done"
    /\ flow = "playlist"
    /\ response = Err("wait for process")
    /\ spawned["transfer"] > 0
    /\ history = HistoryBefore
    /\ notified = 0

\* Request r has opened the local path for writing and has not yet made the
\* file executable.
MidWrite(r) == ens.pc[r] \in {"write", "chmod"}

\* The step is request r's version probe of the local path (which deletes the
\* file when it is made by download_<tool> and fails).
ProbeStep(r) == ens.pc[r] \in {"check_probe", "probe", "verify"} /\ ens'.pc[r] # ens.pc[r]

\* C37: no request runs the version probe on the local path of a tool, or
\* deletes the file there, while another request is between opening that path
\* for writing and making the file executable.
C37_EnsureSafeUnderConcurrency ==
    [][ \A r, q \in Requests : (r # q /\ ProbeStep(r)) => ~MidWrite(q) ]_vars

\* process_progress_line has just processed a line.
LineProcessed == rpc = "lines" /\ prog'.n = prog.n + 1

\* C31: when process_progress_line reads a "[download]" line naming the
\* destination while song_progress is below 100, song_progress becomes 100,
\* completed_songs grows by one and a record with song_progress 100 is emitted.
C31_DestinationCompletesItem ==
    [][ ( /\ LineProcessed
          /\ HasTag(prog'.last, "[download]")
          /\ Contains(prog'.last, <<"Destination", ":">>)
          /\ prog.song_progress < Full ) =>
          /\ prog'.song_progress = Full
          /\ prog'.completed_songs = prog.completed_songs + 1
          /\ Len(emitted') > Len(emitted)
          /\ emitted'[Len(emitted')].song_progress = Full ]_vars

\* The externally visible part of the progress state.
Visible(s) == <<s.current_song, s.song_progress, s.status, s.current_title>>

\* C32: every line that changes current_song, song_progress, the status or the
\* title makes process_progress_line emit a record, and the last record emitted
\* carries the new song_progress, status and title.
C32_NoSilentChange ==
    [][ (LineProcessed /\ ~prog'.panicked /\ Visible(prog') # Visible(prog)) =>
          /\ Len(emitted') > Len(emitted)
          /\ emitted'[Len(emitted')].song_progress = prog'.song_progress
          /\ emitted'[Len(emitted')].status = prog'.status
          /\ emitted'[Len(emitted')].current_title = prog'.current_title ]_vars

\* C33: every record process_progress_line emits for a playlist of at least
\* one video has overall_progress within 0..100 and a current_song between 1
\* and total_songs.
C33_LineRecordsInRange ==
    rpc = "lines" =>
        \A i \in 1..Len(emitted) :
            emitted[i].total_songs > 0 =>
                /\ 0 <= emitted[i].overall_num
                /\ emitted[i].overall_num <= Full * emitted[i].overall_den
                /\ 1 <= emitted[i].current_song
                /\ emitted[i].current_song <= emitted[i].total_songs

\* C34: once a non-empty title is stored, process_progress_line leaves it as
\* it is on every line but a "[youtube]" line announcing a video while
\* song_progress is at 99 or more (the reset for the next item).
C34_TitleKeptUntilItemStart ==
    [][ ( /\ LineProcessed
          /\ prog.current_title # None /\ prog.current_title # Some(<<>>)
          /\ ~( /\ HasTag(prog'.last, "[youtube]") /\ AnnouncesVideo(prog'.last)
                /\ prog.song_progress >= 990 ) ) =>
          prog'.current_title = prog.current_title ]_vars

\* C34 witness: a title was taken from a "[youtube]" line, and the later line
\* "[info] Title: S" has left it in place.
C34_Witness ==
    /\ rpc = "lines"
    /\ prog.last = LineTitle
    /\ prog.current_title = Some(<<"Video", " ", "ID", ":", " ", "dQw4w9WgXcQ">>)

\* Concurrent callers of get_bundled_binary, no request running.
DepsStart == DepsInit /\ ReqIdle

SpecDeps == DepsStart /\ [][DepsNext]_vars

\* ---------------------------------------------------- deps.rs: properties
\* Some caller is inside copy_binary_atomic for tool t.
InExtraction(t) == \E c \in Callers : pc[c] \in Copying /\ tool[c] = t
\* What a reader of the final cache path of t may see.
FinalOK(t) == ~Exists(fs[Dest(t)]) \/ (FullyWritten(fs[Dest(t)]) /\ fs[Dest(t)].exec)
\* The packaged resource cannot be extracted.
ResourceUnusable(b) == b = Unresolved \/ ~Exists(b) \/ FileSize(b) = 0

\* C1: while an extraction for a tool is running, and whenever the final cache
\* path holds anything other than what it held before the first call, a reader
\* of the final path sees no file or a fully written, executable file; partial
\* content and the pre-chmod permission bits exist only at the temporary path.
C1_AtomicPublication ==
    \A t \in Tools :
        (InExtraction(t) \/ fs[Dest(t)] # cache0[t]) => FinalOK(t)

\* C1 witness: a copy is half written at the temporary path, not yet
\* executable, while the final path holds nothing.
C1_Witness ==
    \E c \in Callers :
        /\ pc[c] = "write"
        /\ Exists(fs[TempDest(tool[c])])
        /\ fs[TempDest(tool[c])].len > 0
        /\ fs[TempDest(tool[c])].len < fs[TempDest(tool[c])].of
        /\ ~fs[TempDest(tool[c])].exec
        /\ ~Exists(fs[Dest(tool[c])])

\* C2: at most one caller is between acquiring and releasing the extraction
\* lock, whatever tools the callers ask for, and that caller is the holder.
C2_MutualExclusion ==
    /\ Cardinality({c \in Callers : pc[c] \in Critical}) <= 1
    /\ \A c \in Callers : pc[c] \in Critical => lock = c
    /\ lock # Unlocked => pc[lock] \in Critical

\* C2 witness: one caller is copying while another, asking for the other tool,
\* waits for the lock.
C2_Witness ==
    \E c, d \in Callers :
        /\ c # d
        /\ pc[c] = "write"
        /\ pc[d] = "lock"
        /\ tool[c] # tool[d]

\* C3: every successful return of ensure names a file on which the version
\* probe succeeds, on the fast path and after a fresh extraction.
C3_ReturnedCopyVerified ==
    \A c \in Callers : ret[c].status = "ok" => ProbeOK(ret[c].file)

\* C4: no call returns a zero-byte file; a call that finds a zero-byte file at
\* the cache path deletes it (the path is empty until the rename) and returns a
\* freshly extracted non-empty copy, or fails.
C4_ZeroByteNeverReturned ==
    \A c \in Callers :
        /\ ret[c].status = "ok" => FileSize(ret[c].file) > 0
        /\ (found[c].checked /\ found[c].exists /\ found[c].size = 0) =>
              /\ pc[c] # "probe"
              /\ pc[c] \in Critical => ~Exists(fs[Dest(tool[c])])
              /\ ret[c].status = "ok" =>
                    /\ ret[c].via = "extracted"
                    /\ FullyWritten(ret[c].file)

\* C4 witness: a call found a zero-byte file and returned an extracted copy.
C4_Witness ==
    \E c \in Callers :
        /\ found[c].checked /\ found[c].exists /\ found[c].size = 0
        /\ ret[c].status = "ok"

C6_UnusableResourceAlwaysFails ==
    \A c \in Callers :
        (pc[c] = "done" /\ ResourceUnusable(bundled[tool[c]])) =>
            ret[c].status = "err"

\* C6 (amended): with an unresolved, missing or zero-sized packaged resource,
\* every call that gets past the cache check (no entry, a zero-byte entry, or a
\* failed probe) fails with an error; no file is ever created at the final cache
\* path (it holds nothing or what it held before) nor at the temporary path.
C6_UnusableResourceFailsExtraction ==
    /\ \A t \in Tools :
          ResourceUnusable(bundled[t]) =>
              /\ ~Exists(fs[TempDest(t)])
              /\ fs[Dest(t)] \in {NoFile, cache0[t]}
    /\ \A c \in Callers :
          (pc[c] = "done" /\ ResourceUnusable(bundled[tool[c]]) /\ found[c].probe # "ok") =>
              ret[c].status = "err"

\* C6 witness: a call that found a zero-byte cache entry failed on a zero-byte
\* packaged resource.
C6_Witness ==
    \E c \in Callers :
        /\ found[c].checked /\ found[c].exists /\ found[c].size = 0
        /\ Exists(bundled[tool[c]]) /\ FileSize(bundled[tool[c]]) = 0
        /\ ret[c].status = "err"

\* C7: the extraction lock is not held while the version probe of an existing
\* cache entry runs, so a probe that has not returned does not keep a waiting
\* caller from taking the lock.
C7_ProbeOutsideLock ==
    \A c \in Callers :
        pc[c] = "probe" =>
            /\ lock # c
            /\ \A d \in Callers : pc[d] = "lock" => ENABLED Acquire(d)

\* C36: a caller that has left extract_binary, with a result or with an
\* error, does not hold the extraction lock; the lock is held only by a caller
\* inside the function, so after a failed call a waiting caller finds it free.
C36_LockReleasedOnExit ==
    /\ \A c \in Callers : pc[c] \in {"idle", "done"} => lock # c
    /\ (\E c \in Callers : pc[c] = "done" /\ ret[c].status = "err") =>
          (lock = Unlocked \/ pc[lock] \in Critical)
    /\ (\A c \in Callers : pc[c] \notin Critical) => LockFree

\* C36 witness: one caller's call has failed and another caller has taken the
\* lock since and is copying.
C36_Witness ==
    \E c, d \in Callers :
        /\ c # d
        /\ pc[c] = "done" /\ ret[c].status = "err"
        /\ pc[d] = "write" /\ lock = d
====
